---- MODULE Spec2Model ----
(***************************************************************************)
(* agenttop: the OTLP ingestion-to-query pipeline.                         *)
(*   - the storage engine (src/src/storage/mod.rs, struct Storage): five   *)
(*     tables and the aggregation queries over them;                       *)
(*   - the storage actor and its handle (StorageHandle,                    *)
(*     run_storage_actor): an mpsc queue of commands drained by one thread; *)
(*   - the OTLP codec and the HTTP receiver (src/src/otlp);                *)
(*   - the providers' token-type normalisation (src/src/providers).        *)
(* Strings are TLA+ strings; Option<T> is a sequence of length 0 or 1.     *)
(***************************************************************************)
EXTENDS Integers, Sequences, FiniteSets, TLC

VARIABLES
    conn,        \* Storage.conn: the database, a record of the five tables
    now,         \* the wall clock, Utc::now()
    queue,       \* the mpsc channel of StorageCommand
    actor,       \* the actor thread: "running", "exiting", "stopped"
    senders,     \* the callers that still hold a StorageHandle clone
    waiting,     \* caller -> Option<command id> it blocks on in rx.recv()
    lastCall,    \* caller -> Option<its latest handle call and what it returned>
    history,     \* every command the channel accepted, in send order
    processed,   \* the commands the actor has dequeued, in order: id, instant,
                 \* and how many commands were queued behind it
    errlog,      \* the ids of the commands the actor logged an error for
    stopCause,   \* why the actor loop ended
    http,        \* every HTTP request served: body, status, commands sent
    result,      \* the last query made on the engine, or the last call of
                 \* ensure_configured: Option<record>
    files,       \* path -> Option<content> of the providers' settings files
    app          \* the terminal UI's App

vars == <<conn, now, queue, actor, senders, waiting, lastCall, history,
          processed, errlog, stopCause, http, result, files, app>>

actorVars == <<queue, actor, senders, waiting, lastCall, history, processed,
               errlog, stopCause>>

(***************************************************************************)
(* Option<T>                                                               *)
(***************************************************************************)
None == <<>>
Some(v) == <<v>>
IsSome(o) == Len(o) = 1
Unwrap(o) == o[1]

(***************************************************************************)
(* Strings                                                                 *)
(***************************************************************************)
CharAt(s, i) == SubSeq(s, i, i)

StartsWith(s, p) == Len(s) >= Len(p) /\ SubSeq(s, 1, Len(p)) = p

EndsWith(s, p) == Len(s) >= Len(p) /\ SubSeq(s, Len(s) - Len(p) + 1, Len(s)) = p

\* SQL LIKE: in the pattern '%' stands for any run of characters and '_' for
\* any single character; every other character stands for itself.
RECURSIVE LikeFrom(_, _, _, _)
LikeFrom(s, i, p, j) ==
    IF j > Len(p) THEN i > Len(s)
    ELSE IF CharAt(p, j) = "%"
         THEN \E k \in i..(Len(s) + 1) : LikeFrom(s, k, p, j + 1)
    ELSE IF i > Len(s) THEN FALSE
    ELSE IF CharAt(p, j) = "_" THEN LikeFrom(s, i + 1, p, j + 1)
    ELSE CharAt(s, i) = CharAt(p, j) /\ LikeFrom(s, i + 1, p, j + 1)

Like(s, p) == LikeFrom(s, 1, p, 1)

(***************************************************************************)
(* Sums                                                                    *)
(***************************************************************************)
\* the sum of f[i] over the indices i in S
RECURSIVE SumOver(_, _)
SumOver(f, S) ==
    IF S = {} THEN 0
    ELSE LET i == CHOOSE x \in S : TRUE
         IN  f[i] + SumOver(f, S \ {i})

Range(s) == {s[i] : i \in 1..Len(s)}

RECURSIVE Flatten(_)
Flatten(ss) == IF Len(ss) = 0 THEN <<>> ELSE Head(ss) \o Flatten(Tail(ss))

(***************************************************************************)
(* The time clause of the queries: "timestamp >= '<since>'" when since is  *)
(* Some, nothing when it is None.                                          *)
(***************************************************************************)
time_clause(since, timestamp) == IsSome(since) => timestamp >= Unwrap(since)

(***************************************************************************)
(* Providers: normalize_token_type                                         *)
(***************************************************************************)
TOKEN_INPUT == "input"
TOKEN_OUTPUT == "output"
TOKEN_CACHE_READ == "cache_read"
TOKEN_CACHE_WRITE == "cache_write"

claude_code_normalize_token_type(token_type) ==
    CASE token_type \in {"input", "input_tokens"} -> Some(TOKEN_INPUT)
      [] token_type \in {"output", "output_tokens"} -> Some(TOKEN_OUTPUT)
      [] token_type \in {"cacheRead", "cache_read", "cache_hit"} -> Some(TOKEN_CACHE_READ)
      [] token_type \in {"cacheCreation", "cache_creation", "cache_write"} ->
            Some(TOKEN_CACHE_WRITE)
      [] OTHER -> None

openai_codex_normalize_token_type(token_type) ==
    CASE token_type = "prompt_tokens" -> Some(TOKEN_INPUT)
      [] token_type = "completion_tokens" -> Some(TOKEN_OUTPUT)
      [] OTHER -> None

gemini_cli_normalize_token_type(token_type) ==
    CASE token_type \in {"input", "prompt", "input_tokens", "prompt_tokens"} ->
            Some(TOKEN_INPUT)
      [] token_type \in {"output", "completion", "output_tokens", "completion_tokens"} ->
            Some(TOKEN_OUTPUT)
      [] OTHER -> None

qwen_code_normalize_token_type(token_type) ==
    CASE token_type \in {"input", "input_tokens"} -> Some(TOKEN_INPUT)
      [] token_type \in {"output", "output_tokens"} -> Some(TOKEN_OUTPUT)
      [] token_type \in {"cache", "cache_tokens"} -> Some(TOKEN_CACHE_READ)
      [] token_type \in {"thought", "tool"} -> None
      [] OTHER -> None

\* ProviderRegistry::new: the providers, by id, in registration order
providers == <<"claude_code", "openai_codex", "gemini_cli", "qwen_code">>

\* Provider::normalize_token_type, dispatched on the provider
normalize_token_type(provider, token_type) ==
    CASE provider = "claude_code" -> claude_code_normalize_token_type(token_type)
      [] provider = "openai_codex" -> openai_codex_normalize_token_type(token_type)
      [] provider = "gemini_cli" -> gemini_cli_normalize_token_type(token_type)
      [] provider = "qwen_code" -> qwen_code_normalize_token_type(token_type)

(***************************************************************************)
(* The storage engine: schema and inserts                                  *)
(***************************************************************************)
\* Storage::init_schema: five empty tables
init_schema ==
    [tool_events |-> <<>>, log_events |-> <<>>, token_usage |-> <<>>,
     cost_usage |-> <<>>, session_metrics |-> <<>>]

\* an insert that replaces the rows of the table
record_tool_event_replacing(db, event) ==
    [db EXCEPT !.tool_events = <<event>>]

\* event: [timestamp, tool_name, success, duration_ms, error: Option]
record_tool_event(db, event) ==
    [db EXCEPT !.tool_events = Append(@, event)]

\* events: a sequence of [timestamp, event_name: Option, body: Option,
\* attributes: a function from keys to strings], inserted row by row
insert_log_events(db, events) ==
    [db EXCEPT !.log_events = @ \o events]

\* the row is stamped Utc::now() at the insert
record_token_usage(db, t, token_type, count) ==
    [db EXCEPT !.token_usage =
        Append(@, [timestamp |-> t, token_type |-> token_type, count |-> count])]

\* cost_usd is a whole number of cost units (the f64 sum is taken as exact)
record_cost(db, t, cost_usd) ==
    [db EXCEPT !.cost_usage = Append(@, [timestamp |-> t, cost_usd |-> cost_usd])]

record_session_metric(db, t, metric_name, value) ==
    [db EXCEPT !.session_metrics =
        Append(@, [timestamp |-> t, metric_name |-> metric_name, value |-> value])]

(***************************************************************************)
(* get_token_metrics                                                       *)
(***************************************************************************)
\* the match with one spelling of the input arm forgotten
token_type_match_without_prompt_tokens(token_type) ==
    CASE token_type \in {"input", "input_tokens"} -> "input_tokens"
      [] token_type \in {"output", "completion_tokens", "output_tokens"} -> "output_tokens"
      [] token_type \in {"cacheRead", "cache_read", "cache_hit"} -> "cache_read_tokens"
      [] token_type \in {"cacheCreation", "cache_creation", "cache_write"} ->
            "cache_creation_tokens"
      [] OTHER -> "unknown"

\* the match on token_type: the TokenMetrics field the group total is added
\* to, "unknown" for the arm that only warns
token_type_match(token_type) ==
    CASE token_type \in {"input", "prompt_tokens", "input_tokens"} -> "input_tokens"
      [] token_type \in {"output", "completion_tokens", "output_tokens"} -> "output_tokens"
      [] token_type \in {"cacheRead", "cache_read", "cache_hit"} -> "cache_read_tokens"
      [] token_type \in {"cacheCreation", "cache_creation", "cache_write"} ->
            "cache_creation_tokens"
      [] OTHER -> "unknown"

\* SELECT token_type, SUM(count) FROM token_usage {time_clause} GROUP BY
\* token_type, each group added to the field its token_type matches; then
\* SELECT COALESCE(SUM(cost_usd), 0) FROM cost_usage {cost_clause}
get_token_metrics(db, since) ==
    LET rows == db.token_usage
        inw == {i \in 1..Len(rows) : time_clause(since, rows[i].timestamp)}
        groups == {rows[i].token_type : i \in inw}
        total == [g \in groups |->
                    SumOver([i \in inw |-> rows[i].count],
                            {i \in inw : rows[i].token_type = g})]
        field(f) == SumOver(total, {g \in groups : token_type_match(g) = f})
        costs == db.cost_usage
        cinw == {i \in 1..Len(costs) : time_clause(since, costs[i].timestamp)}
    IN  [input_tokens |-> field("input_tokens"),
         output_tokens |-> field("output_tokens"),
         cache_read_tokens |-> field("cache_read_tokens"),
         cache_creation_tokens |-> field("cache_creation_tokens"),
         total_cost_usd |-> SumOver([i \in cinw |-> costs[i].cost_usd], cinw)]

(***************************************************************************)
(* get_tool_metrics                                                        *)
(***************************************************************************)
\* json_extract_string(attributes, '$.<key>'): NULL when the key is absent
json_extract_string(attributes, key) ==
    IF key \in DOMAIN attributes THEN Some(attributes[key]) ELSE None

DigitValue(c) ==
    CASE c = "0" -> 0 [] c = "1" -> 1 [] c = "2" -> 2 [] c = "3" -> 3
      [] c = "4" -> 4 [] c = "5" -> 5 [] c = "6" -> 6 [] c = "7" -> 7
      [] c = "8" -> 8 [] c = "9" -> 9

\* CAST(<a string of decimal digits> AS BIGINT)
RECURSIVE cast_bigint(_)
cast_bigint(s) ==
    IF Len(s) = 0 THEN 0
    ELSE 10 * cast_bigint(SubSeq(s, 1, Len(s) - 1)) + DigitValue(CharAt(s, Len(s)))

\* the WHERE clause of the log_events sub-select: event_name LIKE pattern
\* (NULL LIKE pattern is NULL, which selects nothing) and the time clause
log_event_selected(row, pattern, since) ==
    /\ IsSome(row.event_name)
    /\ Like(Unwrap(row.event_name), pattern)
    /\ time_clause(since, row.timestamp)

\* a legacy sub-select that takes every call for approved
legacy_projection_approved(row) ==
    [tool_name |-> row.tool_name, timestamp |-> row.timestamp,
     duration_ms |-> row.duration_ms, success |-> row.success,
     decision |-> Some("approved")]

\* the legacy sub-select: the columns as stored, decision NULL
legacy_projection(row) ==
    [tool_name |-> row.tool_name, timestamp |-> row.timestamp,
     duration_ms |-> row.duration_ms, success |-> row.success, decision |-> None]

\* the log_events sub-select: tool_name, duration_ms, success and decision
\* read from the attributes, with their defaults
log_projection(row) ==
    LET a == row.attributes
        tool == json_extract_string(a, "tool_name")
        dur == json_extract_string(a, "duration_ms")
        succ == json_extract_string(a, "success")
    IN  [tool_name |-> IF IsSome(tool) THEN Unwrap(tool) ELSE "unknown",
         timestamp |-> row.timestamp,
         duration_ms |-> IF IsSome(dur) THEN cast_bigint(Unwrap(dur)) ELSE 0,
         success |-> IsSome(succ) /\ Unwrap(succ) \in {"true", "1"},
         decision |-> json_extract_string(a, "decision")]

\* the CTE without its legacy sub-select
combined_events_logs_only(db, since) ==
    LET logs == SelectSeq(db.log_events,
                          LAMBDA r : log_event_selected(r, "%tool_result", since))
    IN  [i \in 1..Len(logs) |-> log_projection(logs[i])]

\* WITH combined_events AS (... UNION ALL ...)
combined_events(db, since) ==
    LET legacy == SelectSeq(db.tool_events,
                            LAMBDA r : time_clause(since, r.timestamp))
        logs == SelectSeq(db.log_events,
                          LAMBDA r : log_event_selected(r, "%tool_result", since))
    IN  [i \in 1..Len(legacy) |-> legacy_projection(legacy[i])]
        \o [i \in 1..Len(logs) |-> log_projection(logs[i])]

SetMax(S) == CHOOSE x \in S : \A y \in S : y <= x
SetMin(S) == CHOOSE x \in S : \A y \in S : x <= y

\* SELECT ... FROM combined_events GROUP BY tool_name: one ToolMetrics per
\* group; avg_duration_ms is the fraction sum / count of the group
tool_metrics_groups(db, since) ==
    LET ev == combined_events(db, since)
        all == 1..Len(ev)
        of(name) == {i \in all : ev[i].tool_name = name}
        n(S) == Cardinality(S)
    IN  {[tool_name |-> name,
          call_count |-> n(of(name)),
          last_call |-> Some(SetMax({ev[i].timestamp : i \in of(name)})),
          avg_duration_ms |->
              [sum |-> SumOver([i \in all |-> ev[i].duration_ms], of(name)),
               count |-> n(of(name))],
          min_duration_ms |-> SetMin({ev[i].duration_ms : i \in of(name)}),
          max_duration_ms |-> SetMax({ev[i].duration_ms : i \in of(name)}),
          success_count |-> n({i \in of(name) : ev[i].success}),
          error_count |-> n({i \in of(name) : ~ev[i].success}),
          approved_count |->
              n({i \in of(name) : ev[i].decision \in {Some("approved"),
                                                       Some("auto_approved")}}),
          rejected_count |-> n({i \in of(name) : ev[i].decision = Some("rejected")})]
         : name \in {ev[i].tool_name : i \in all}}

\* ORDER BY call_count DESC: every order of the groups the clause allows
\* (rows of equal call_count come in any order)
order_by_call_count_desc(groups) ==
    {s \in [1..Cardinality(groups) -> groups] :
        /\ \A i, j \in DOMAIN s : i # j => s[i] # s[j]
        /\ \A i, j \in DOMAIN s : i < j => s[i].call_count >= s[j].call_count}

\* Storage::get_tool_metrics: the results the query may return
get_tool_metrics(db, since) == order_by_call_count_desc(tool_metrics_groups(db, since))

(***************************************************************************)
(* get_last_tool_error                                                     *)
(***************************************************************************)
\* the legacy sub-select of the errors CTE:
\* tool_name = ? AND success = false AND error IS NOT NULL
legacy_error_selected(row, tool_name) ==
    /\ row.tool_name = tool_name
    /\ row.success = FALSE
    /\ IsSome(row.error)

\* the log_events sub-select of the errors CTE. A comparison with NULL is
\* NULL and selects nothing: an event without tool_name, without success or
\* without error is not selected.
log_error_selected(row, tool_name) ==
    LET a == row.attributes
        tool == json_extract_string(a, "tool_name")
        succ == json_extract_string(a, "success")
        err == json_extract_string(a, "error")
    IN  /\ IsSome(row.event_name)
        /\ Like(Unwrap(row.event_name), "%tool_result")
        /\ IsSome(tool) /\ Unwrap(tool) = tool_name
        /\ IsSome(succ) /\ Unwrap(succ) \notin {"true", "1"}
        /\ IsSome(err)

\* WITH errors AS (... UNION ALL ...): the rows as (timestamp, error_msg);
\* equal rows are kept once, which LIMIT 1 cannot tell apart
errors(db, tool_name) ==
    {[timestamp |-> r.timestamp, error_msg |-> Unwrap(r.error)]
        : r \in {x \in Range(db.tool_events) : legacy_error_selected(x, tool_name)}}
    \cup
    {[timestamp |-> r.timestamp,
      error_msg |-> Unwrap(json_extract_string(r.attributes, "error"))]
        : r \in {x \in Range(db.log_events) : log_error_selected(x, tool_name)}}

\* Storage::get_last_tool_error: ORDER BY timestamp DESC LIMIT 1, any of the
\* rows of the greatest timestamp; no row is Ok(None). The results the query
\* may return.
get_last_tool_error(db, tool_name) ==
    LET e == errors(db, tool_name)
    IN  IF e = {} THEN {None}
        ELSE {Some(r.error_msg)
                : r \in {x \in e : \A y \in e : y.timestamp <= x.timestamp}}

(***************************************************************************)
(* get_session_metrics                                                     *)
(***************************************************************************)
\* SELECT metric_name, SUM(value) AS total FROM session_metrics
\* [WHERE timestamp >= since] GROUP BY metric_name
session_metrics_groups(db, since) ==
    LET rows == db.session_metrics
        inw == {i \in 1..Len(rows) : time_clause(since, rows[i].timestamp)}
        of(name) == {i \in inw : rows[i].metric_name = name}
    IN  {[metric_name |-> name,
          total |-> SumOver([i \in inw |-> rows[i].value], of(name))]
            : name \in {rows[i].metric_name : i \in inw}}

\* "i as u64" of a non-negative i64
i64_as_u64(i) == i

\* SessionMetrics::default()
SessionMetrics_default ==
    [lines_of_code |-> 0, commit_count |-> 0, active_time_secs |-> 0]

\* the match of the row loop: the field of the row's name is assigned the
\* row's total
session_metrics_match(metrics, row) ==
    CASE row.metric_name \in {"lines_of_code", "loc"} ->
            [metrics EXCEPT !.lines_of_code = row.total]
      [] row.metric_name \in {"commits", "commit_count"} ->
            [metrics EXCEPT !.commit_count = i64_as_u64(row.total)]
      [] row.metric_name = "active_time" ->
            [metrics EXCEPT !.active_time_secs = i64_as_u64(row.total)]
      [] OTHER -> metrics

\* for row in rows { match ... }
RECURSIVE session_metrics_loop(_, _)
session_metrics_loop(metrics, rows) ==
    IF Len(rows) = 0 THEN metrics
    ELSE session_metrics_loop(session_metrics_match(metrics, Head(rows)), Tail(rows))

\* the orders in which a query without ORDER BY may return its groups
any_order(groups) ==
    {s \in [1..Cardinality(groups) -> groups] :
        \A i, j \in DOMAIN s : i # j => s[i] # s[j]}

\* Storage::get_session_metrics: the results the call may return
get_session_metrics(db, since) ==
    {session_metrics_loop(SessionMetrics_default, rows)
        : rows \in any_order(session_metrics_groups(db, since))}

(***************************************************************************)
(* get_api_metrics. A double is held as an exact fraction [num, den].      *)
(***************************************************************************)
\* COALESCE(json_extract(attributes, '$.latency_ms'),
\*          json_extract(attributes, '$.duration_ms'), '0'), cast to a number
api_latency(attributes) ==
    LET latency == json_extract_string(attributes, "latency_ms")
        duration == json_extract_string(attributes, "duration_ms")
    IN  IF IsSome(latency) THEN cast_bigint(Unwrap(latency))
        ELSE IF IsSome(duration) THEN cast_bigint(Unwrap(duration))
        ELSE cast_bigint("0")

\* SELECT COUNT(*), AVG(...), json_extract_string(attributes, '$.model')
\* FROM log_events WHERE event_name LIKE '%api_request' [AND timestamp >= since]
\* GROUP BY model: one row per model, the events without a model in a group
\* of their own
api_request_groups(db, since) ==
    LET rows == db.log_events
        sel == {i \in 1..Len(rows) : log_event_selected(rows[i], "%api_request", since)}
        model(i) == json_extract_string(rows[i].attributes, "model")
        of(m) == {i \in sel : model(i) = m}
    IN  {[call_count |-> Cardinality(of(m)),
          avg_latency |->
              [num |-> SumOver([i \in sel |-> api_latency(rows[i].attributes)], of(m)),
               den |-> Cardinality(of(m))],
          model |-> m]
            : m \in {model(i) : i \in sel}}

\* ApiMetrics::default() and the running total_latency_sum
ApiMetrics_default ==
    [total_calls |-> 0, total_errors |-> 0, avg_latency_ms |-> [num |-> 0, den |-> 1],
     models |-> [m \in {} |-> 0]]

\* avg_latency * count as f64, of the average num / den of count = den rows
avg_times_count(avg_latency, count) == (avg_latency.num * count) \div avg_latency.den

\* *metrics.models.entry(m).or_insert(0) += count
models_entry_add(models, m, count) ==
    [k \in DOMAIN models \cup {m} |->
        (IF k \in DOMAIN models THEN models[k] ELSE 0) + (IF k = m THEN count ELSE 0)]

\* the body of the row loop, on the pair (metrics, total_latency_sum)
api_metrics_row(acc, row) ==
    [metrics |->
        [acc.metrics EXCEPT
            !.total_calls = @ + row.call_count,
            !.models = IF IsSome(row.model)
                       THEN models_entry_add(@, Unwrap(row.model), row.call_count)
                       ELSE @],
     total_latency_sum |->
        acc.total_latency_sum + avg_times_count(row.avg_latency, row.call_count)]

RECURSIVE api_metrics_loop(_, _)
api_metrics_loop(acc, rows) ==
    IF Len(rows) = 0 THEN acc
    ELSE api_metrics_loop(api_metrics_row(acc, Head(rows)), Tail(rows))

\* SELECT COUNT(*) FROM log_events WHERE event_name LIKE '%api_error' [AND ...]
api_error_count(db, since) ==
    Cardinality({i \in 1..Len(db.log_events) :
                    log_event_selected(db.log_events[i], "%api_error", since)})

\* Storage::get_api_metrics: the results the call may return
get_api_metrics(db, since) ==
    {LET acc == api_metrics_loop([metrics |-> ApiMetrics_default,
                                  total_latency_sum |-> 0], rows)
         m == acc.metrics
     IN  [m EXCEPT
            !.avg_latency_ms = IF m.total_calls > 0
                               THEN [num |-> acc.total_latency_sum, den |-> m.total_calls]
                               ELSE @,
            !.total_errors = api_error_count(db, since)]
        : rows \in any_order(api_request_groups(db, since))}

(***************************************************************************)
(* Tool classification (storage/mod.rs, providers/*.rs)                    *)
(***************************************************************************)
\* storage's list of built-in tools
BUILTIN_TOOLS ==
    {"Read", "Write", "Edit", "Bash", "Glob", "Grep", "Task",
     "TodoRead", "TodoWrite", "WebFetch", "WebSearch", "Agent",
     "Skill", "AskUser", "AskUserQuestion", "MultiEdit", "NotebookEdit",
     "KillShell", "EnterPlanMode", "ExitPlanMode", "TaskOutput"}

\* ToolMetrics::is_builtin and ToolMetrics::is_mcp
is_builtin(self) == self.tool_name \in BUILTIN_TOOLS
is_mcp(self) == ~is_builtin(self)

\* each provider's list of built-in tools
claude_code_BUILTIN_TOOLS ==
    {"Read", "Write", "Edit", "Bash", "Glob", "Grep", "Task",
     "TodoRead", "TodoWrite", "WebFetch", "WebSearch", "Agent",
     "Skill", "AskUser", "AskUserQuestion", "MultiEdit", "NotebookEdit",
     "KillShell", "EnterPlanMode", "ExitPlanMode", "TaskOutput"}
openai_codex_BUILTIN_TOOLS ==
    {"shell", "read_file", "write_file", "edit_file", "search", "list_files",
     "run_command", "apply_patch"}
gemini_cli_BUILTIN_TOOLS ==
    {"read_file", "write_file", "edit_file", "run_shell_command", "search_files",
     "list_directory", "find_files", "glob_files", "web_search", "memory_tool"}
qwen_code_BUILTIN_TOOLS ==
    {"read_file", "write_file", "edit_file", "run_command", "search",
     "list_files", "create_file", "delete_file"}

\* ProviderRegistry::new: the registered providers, each by its builtin_tools()
ProviderRegistry_new ==
    <<claude_code_BUILTIN_TOOLS, openai_codex_BUILTIN_TOOLS,
      gemini_cli_BUILTIN_TOOLS, qwen_code_BUILTIN_TOOLS>>

\* ProviderRegistry::is_any_builtin_tool
is_any_builtin_tool(tool_name) ==
    \E p \in 1..Len(ProviderRegistry_new) : tool_name \in ProviderRegistry_new[p]

\* the registered providers' ids, in the registry's order
ProviderRegistry_ids == <<"claude_code", "openai_codex", "gemini_cli", "qwen_code">>

\* ProviderRegistry::provider_for_tool: the id of the first provider that
\* lists the tool
provider_for_tool(tool_name) ==
    LET P == {p \in 1..Len(ProviderRegistry_new) : tool_name \in ProviderRegistry_new[p]}
    IN  IF P = {} THEN None ELSE Some(ProviderRegistry_ids[SetMin(P)])

\* the ASCII letters and the underscore, in byte order
AsciiOrder == "ABCDEFGHIJKLMNOPQRSTUVWXYZ_abcdefghijklmnopqrstuvwxyz"
Ord(c) == IF \E i \in 1..Len(AsciiOrder) : CharAt(AsciiOrder, i) = c
          THEN CHOOSE i \in 1..Len(AsciiOrder) : CharAt(AsciiOrder, i) = c
          ELSE 0

\* str::cmp: byte-wise lexicographic, a proper prefix first
RECURSIVE str_lt(_, _)
str_lt(a, b) ==
    IF Len(b) = 0 THEN FALSE
    ELSE IF Len(a) = 0 THEN TRUE
    ELSE IF CharAt(a, 1) # CharAt(b, 1) THEN Ord(CharAt(a, 1)) < Ord(CharAt(b, 1))
    ELSE str_lt(SubSeq(a, 2, Len(a)), SubSeq(b, 2, Len(b)))

\* str::to_lowercase on ASCII
RECURSIVE to_lowercase(_)
to_lowercase(s) ==
    IF Len(s) = 0 THEN ""
    ELSE LET c == CharAt(s, 1)
         IN  (IF Ord(c) \in 1..26 THEN CharAt(AsciiOrder, Ord(c) + 27) ELSE c)
                \o to_lowercase(SubSeq(s, 2, Len(s)))

\* str::contains
contains(s, pat) ==
    \E i \in 1..(Len(s) - Len(pat) + 1) : SubSeq(s, i, i + Len(pat) - 1) = pat

\* provider.shorten_model_name(name).is_some(), of the p-th provider
shorten_model_name_is_some(p, name) ==
    LET n == to_lowercase(name)
    IN  CASE p = 1 -> \E w \in {"opus", "sonnet", "haiku"} : contains(n, w)
          [] p = 2 -> \E w \in {"gpt-4o", "gpt-4-turbo", "gpt-4", "gpt-3.5", "gpt-3",
                                "o1-preview", "o1-mini", "o1", "o3-mini", "o3"} :
                         contains(n, w)
          [] p = 3 -> contains(n, "gemini")
          [] p = 4 -> contains(n, "qwen")

(***************************************************************************)
(* The terminal UI's App (tui/app.rs). Time is counted in hours.           *)
(***************************************************************************)
\* App::new
App_new ==
    [tool_metrics |-> <<>>,
     token_metrics |-> [input_tokens |-> 0, output_tokens |-> 0,
                        cache_read_tokens |-> 0, cache_creation_tokens |-> 0,
                        total_cost_usd |-> 0],
     session_metrics |-> SessionMetrics_default,
     api_metrics |-> ApiMetrics_default,
     selected_index |-> 0, sort_by |-> "Calls", sort_ascending |-> FALSE,
     paused |-> FALSE, show_detail |-> FALSE, last_refresh |-> 0,
     time_filter |-> "AllTime", detected_agents |-> <<>>, selected_agent_index |-> 0]

\* TimeFilter::since at instant t
TimeFilter_since(time_filter, t) ==
    CASE time_filter = "LastHour" -> Some(t - 1)
      [] time_filter = "Last24Hours" -> Some(t - 24)
      [] time_filter = "Last7Days" -> Some(t - 168)
      [] time_filter = "AllTime" -> None

\* Option<DateTime>::cmp is Less: None before Some
last_call_lt(a, b) == IF ~IsSome(b) THEN FALSE ELSE ~IsSome(a) \/ Unwrap(a) < Unwrap(b)

\* the comparator of sort_tools says Less of (a, b)
sort_tools_less(sort_by, ascending, a, b) ==
    LET by_name == str_lt(a.tool_name, b.tool_name)
        avg_lt(x, y) == x.avg_duration_ms.sum * y.avg_duration_ms.count
                            < y.avg_duration_ms.sum * x.avg_duration_ms.count
        primary_lt(x, y) ==
            CASE sort_by = "Calls" -> x.call_count < y.call_count
              [] sort_by = "LastCall" -> last_call_lt(x.last_call, y.last_call)
              [] sort_by = "AvgDuration" -> avg_lt(x, y)
    IN  IF sort_by = "Name"
        THEN IF ascending THEN by_name ELSE str_lt(b.tool_name, a.tool_name)
        ELSE LET less == IF ascending THEN primary_lt(a, b) ELSE primary_lt(b, a)
                 greater == IF ascending THEN primary_lt(b, a) ELSE primary_lt(a, b)
             IN  less \/ (~greater /\ by_name)

\* App::sort_tools: the rows have distinct names, so the comparator orders
\* them totally and each row goes behind the rows that are Less than it
sort_tools(self) ==
    LET rows == Range(self.tool_metrics)
        rank(r) == Cardinality({q \in rows :
                        sort_tools_less(self.sort_by, self.sort_ascending, q, r)})
    IN  [self EXCEPT !.tool_metrics =
            [k \in 1..Len(self.tool_metrics) |-> CHOOSE r \in rows : rank(r) = k - 1]]

\* App::add_detected_agent
add_detected_agent(self, agent_id) ==
    IF agent_id \in Range(self.detected_agents) THEN self
    ELSE [self EXCEPT !.detected_agents = Append(@, agent_id)]

RECURSIVE add_detected_agents(_, _)
add_detected_agents(self, new_agents) ==
    IF Len(new_agents) = 0 THEN self
    ELSE add_detected_agents(add_detected_agent(self, Head(new_agents)), Tail(new_agents))

\* the agents refresh detects: of each tool in the rows' order, then of each
\* model in the order keys (the first provider that shortens its name)
new_agents_of(tool_metrics, keys) ==
    LET of_tool(i) == provider_for_tool(tool_metrics[i].tool_name)
        of_model(i) ==
            LET P == {p \in 1..Len(ProviderRegistry_ids) :
                         shorten_model_name_is_some(p, keys[i])}
            IN  IF P = {} THEN None ELSE Some(ProviderRegistry_ids[SetMin(P)])
    IN  Flatten([i \in 1..Len(tool_metrics) |->
                    IF IsSome(of_tool(i)) THEN <<Unwrap(of_tool(i))>> ELSE <<>>])
        \o Flatten([i \in 1..Len(keys) |->
                    IF IsSome(of_model(i)) THEN <<Unwrap(of_model(i))>> ELSE <<>>])

\* a refresh that does not look at the selection
refresh_without_clamp(self, db, t) ==
    IF self.paused THEN {self}
    ELSE {sort_tools([self EXCEPT !.tool_metrics = tools, !.last_refresh = t])
            : tools \in get_tool_metrics(db, TimeFilter_since(self.time_filter, t))}

\* App::refresh on the database db at instant t: the states it may leave the
\* App in (the queries' row orders and the HashMap's key order are free)
refresh(self, db, t) ==
    IF self.paused THEN {self}
    ELSE LET since == TimeFilter_since(self.time_filter, t)
         IN  {LET read == [self EXCEPT !.tool_metrics = tools,
                                       !.token_metrics = get_token_metrics(db, since),
                                       !.session_metrics = session,
                                       !.api_metrics = api,
                                       !.last_refresh = t]
                  sorted == sort_tools(add_detected_agents(read, new_agents_of(tools, keys)))
              IN  IF Len(sorted.tool_metrics) # 0
                        /\ sorted.selected_index >= Len(sorted.tool_metrics)
                  THEN [sorted EXCEPT !.selected_index = Len(sorted.tool_metrics) - 1]
                  ELSE sorted
              : tools \in get_tool_metrics(db, since),
                session \in get_session_metrics(db, since),
                api \in get_api_metrics(db, since),
                keys \in UNION {any_order(DOMAIN a.models) : a \in get_api_metrics(db, since)}}

\* App::toggle_sort
toggle_sort(self) ==
    sort_tools([self EXCEPT !.sort_by =
        CASE @ = "Calls" -> "LastCall" [] @ = "LastCall" -> "AvgDuration"
          [] @ = "AvgDuration" -> "Name" [] @ = "Name" -> "Calls"])

\* App::toggle_pause
toggle_pause(self) == [self EXCEPT !.paused = ~@]

\* App::select_next
select_next(self) ==
    IF Len(self.tool_metrics) # 0
    THEN [self EXCEPT !.selected_index = (@ + 1) % Len(self.tool_metrics)]
    ELSE self

\* App::select_previous
select_previous(self) ==
    IF Len(self.tool_metrics) # 0
    THEN [self EXCEPT !.selected_index =
            IF @ = 0 THEN Len(self.tool_metrics) - 1 ELSE @ - 1]
    ELSE self

\* App::reset_stats
reset_stats(self) == [self EXCEPT !.selected_index = 0]

\* App::selected_tool: tool_metrics.get(selected_index)
selected_tool(self) ==
    IF self.selected_index < Len(self.tool_metrics)
    THEN Some(self.tool_metrics[self.selected_index + 1]) ELSE None

\* App::toggle_time_filter
toggle_time_filter(self) ==
    [self EXCEPT !.time_filter =
        CASE @ = "LastHour" -> "Last24Hours" [] @ = "Last24Hours" -> "Last7Days"
          [] @ = "Last7Days" -> "AllTime" [] @ = "AllTime" -> "LastHour"]

(***************************************************************************)
(* The initial state: an empty database behind a running actor             *)
(***************************************************************************)
\* the holders of a StorageHandle clone: the terminal UI and the OTLP server
Callers == {"c1", "c2"}

\* the providers that configure themselves, and their files: settings_path()
\* below the home directory and settings_path.with_extension("json.bak")
SettingsProviders == {"claude_code", "gemini_cli", "qwen_code"}
settings_path(provider) ==
    CASE provider = "claude_code" -> ".claude/settings.json"
      [] provider = "gemini_cli" -> ".gemini/settings.json"
      [] provider = "qwen_code" -> ".qwen/settings.json"
backup_path(path) == path \o ".bak"
Paths ==
    {settings_path(p) : p \in SettingsProviders}
        \cup {backup_path(settings_path(p)) : p \in SettingsProviders}

InitStorage ==
    /\ conn = init_schema
    /\ now = 0
    /\ queue = <<>>
    /\ actor = "running"
    /\ senders = Callers
    /\ waiting = [c \in Callers |-> None]
    /\ lastCall = [c \in Callers |-> None]
    /\ history = <<>>
    /\ processed = <<>>
    /\ errlog = <<>>
    /\ stopCause = None
    /\ http = <<>>
    /\ result = None
    /\ app = App_new

Init ==
    /\ InitStorage
    /\ files = [path \in Paths |-> None]

(***************************************************************************)
(* The OTLP decoders (otlp/parser.rs)                                      *)
(*                                                                         *)
(* A request body is what the two byte-level decoders make of it:          *)
(*   protobuf : Option<request>  what prost decodes from the bytes,        *)
(*   json     : Option<document> the JSON document the bytes hold.         *)
(* An f64 is held as its number of tenths.  The integers of the inputs are *)
(* non-negative and far below 2^63.                                        *)
(***************************************************************************)
Ok(v) == [ok |-> TRUE, value |-> v]
Err == [ok |-> FALSE]

DigitChars == <<"0", "1", "2", "3", "4", "5", "6", "7", "8", "9">>
IsDigit(c) == \E d \in 1..10 : DigitChars[d] = c

RECURSIVE u64_to_string(_)
u64_to_string(n) ==
    IF n < 10 THEN DigitChars[n + 1]
    ELSE u64_to_string(n \div 10) \o DigitChars[(n % 10) + 1]

i64_to_string(i) == IF i < 0 THEN "-" \o u64_to_string(-i) ELSE u64_to_string(i)

\* f64::to_string of a number of tenths: "2.5", and "2" for 2.0
f64_to_string(d) ==
    LET a == IF d < 0 THEN -d ELSE d
    IN  (IF d < 0 THEN "-" ELSE "") \o u64_to_string(a \div 10)
            \o (IF a % 10 = 0 THEN "" ELSE "." \o DigitChars[(a % 10) + 1])

bool_to_string(b) == IF b THEN "true" ELSE "false"

\* str::parse::<u64>: digits only, at least one
parse_u64(s) ==
    IF Len(s) > 0 /\ \A i \in 1..Len(s) : IsDigit(CharAt(s, i))
    THEN Ok(cast_bigint(s)) ELSE Err

\* str::parse::<i64>: an optional sign and digits
parse_i64(s) ==
    IF Len(s) > 1 /\ CharAt(s, 1) = "-"
    THEN LET r == parse_u64(SubSeq(s, 2, Len(s)))
         IN  IF r.ok THEN Ok(-r.value) ELSE Err
    ELSE parse_u64(s)

\* str::replace: every non-overlapping occurrence, left to right
RECURSIVE replace(_, _, _)
replace(s, from, to) ==
    IF Len(s) < Len(from) THEN s
    ELSE IF StartsWith(s, from)
         THEN to \o replace(SubSeq(s, Len(from) + 1, Len(s)), from, to)
         ELSE CharAt(s, 1) \o replace(SubSeq(s, 2, Len(s)), from, to)

\* the numeric casts: "d as u64" saturates at 0 and truncates, "d as i64"
\* truncates toward zero, "i as f64" is exact
f64_as_u64(d) == IF d < 0 THEN 0 ELSE d \div 10
f64_as_i64(d) == IF d < 0 THEN -((-d) \div 10) ELSE d \div 10
i64_as_f64(i) == 10 * i

\* Utc.timestamp_nanos(nanos as i64)
timestamp_nanos(nanos) == nanos

\* attributes.iter().find(|a| a.key == key)
find_attribute(attributes, key) ==
    LET I == {i \in 1..Len(attributes) : attributes[i].key = key}
    IN  IF I = {} THEN None ELSE Some(attributes[SetMin(I)])

\* an AnyValue: [value |-> Option<[kind, v]>]
get_string_value(value) ==
    IF IsSome(value.value) /\ Unwrap(value.value).kind = "StringValue"
    THEN Some(Unwrap(value.value).v) ELSE None

get_any_value_as_string(value) ==
    IF ~IsSome(value.value) THEN None
    ELSE LET k == Unwrap(value.value)
         IN  CASE k.kind = "StringValue" -> Some(k.v)
               [] k.kind = "IntValue" -> Some(i64_to_string(k.v))
               [] k.kind = "DoubleValue" -> Some(f64_to_string(k.v))
               [] k.kind = "BoolValue" -> Some(bool_to_string(k.v))
               [] OTHER -> None

\* a deserialized AttributeValue: four optional fields
get_json_attribute_as_string(value) ==
    IF IsSome(value.string_value) THEN value.string_value
    ELSE IF IsSome(value.int_value) THEN Some(i64_to_string(Unwrap(value.int_value)))
    ELSE IF IsSome(value.double_value) THEN Some(f64_to_string(Unwrap(value.double_value)))
    ELSE IF IsSome(value.bool_value) THEN Some(bool_to_string(Unwrap(value.bool_value)))
    ELSE None

\* filter_map(...).collect::<HashMap<_, _>>() over pairs <<key, Option<string>>>:
\* the pairs with a string, a later one replacing an earlier one of its key
collect_hash_map(pairs) ==
    LET kept == {i \in 1..Len(pairs) : IsSome(pairs[i][2])}
    IN  [k \in {pairs[i][1] : i \in kept} |->
            Unwrap(pairs[SetMax({i \in kept : pairs[i][1] = k})][2])]

\* a JSON field that is absent, a number, or a string to parse, read as i64
deserialize_optional_string_or_i64(raw) ==
    IF ~IsSome(raw) THEN Ok(None)
    ELSE IF Unwrap(raw).kind = "Number" THEN Ok(Some(Unwrap(raw).n))
    ELSE LET r == parse_i64(Unwrap(raw).s)
         IN  IF r.ok THEN Ok(Some(r.value)) ELSE Err

\* the same read as u64: a negative number is no u64
deserialize_string_or_u64(raw) ==
    IF ~IsSome(raw) THEN Ok(None)
    ELSE IF Unwrap(raw).kind = "Number"
         THEN IF Unwrap(raw).n >= 0 THEN Ok(Some(Unwrap(raw).n)) ELSE Err
    ELSE LET r == parse_u64(Unwrap(raw).s)
         IN  IF r.ok THEN Ok(Some(r.value)) ELSE Err

\* serde's reading of the structs Attribute, LogRecord, ScopeLogs, ResourceLogs
\* and OtlpLogsRequest from a document: an error anywhere fails the whole
Attribute_ok(a) == deserialize_optional_string_or_i64(a.value.int_value).ok
deserialize_Attribute(a) ==
    [key |-> a.key,
     value |-> [a.value EXCEPT
                  !.int_value = deserialize_optional_string_or_i64(@).value]]

LogRecord_ok(rec) ==
    /\ deserialize_string_or_u64(rec.time_unix_nano).ok
    /\ \A i \in 1..Len(rec.attributes) : Attribute_ok(rec.attributes[i])
deserialize_LogRecord(rec) ==
    [time_unix_nano |-> deserialize_string_or_u64(rec.time_unix_nano).value,
     body |-> rec.body,
     attributes |-> [i \in 1..Len(rec.attributes) |->
                       deserialize_Attribute(rec.attributes[i])]]

\* serde_json::from_slice::<OtlpLogsRequest>: the bytes must hold a document
\* with the field resourceLogs
deserialize_OtlpLogsRequest(json) ==
    IF ~IsSome(json) \/ "resource_logs" \notin DOMAIN Unwrap(json) THEN Err
    ELSE LET rl == Unwrap(json).resource_logs
         IN  IF \A r \in 1..Len(rl) : \A sc \in 1..Len(rl[r].scope_logs) :
                   \A i \in 1..Len(rl[r].scope_logs[sc].log_records) :
                       LogRecord_ok(rl[r].scope_logs[sc].log_records[i])
             THEN Ok([resource_logs |-> [r \in 1..Len(rl) |->
                     [scope_logs |-> [sc \in 1..Len(rl[r].scope_logs) |->
                        [log_records |->
                           [i \in 1..Len(rl[r].scope_logs[sc].log_records) |->
                              deserialize_LogRecord(rl[r].scope_logs[sc].log_records[i])]]]]]])
             ELSE Err

\* the body of the innermost loop of parse_logs_proto, at instant t
log_event_proto(record, t) ==
    LET a == find_attribute(record.attributes, "event.name")
    IN  [timestamp |-> IF record.time_unix_nano > 0
                       THEN timestamp_nanos(record.time_unix_nano) ELSE t,
         event_name |-> IF IsSome(a) /\ IsSome(Unwrap(a).value)
                        THEN get_string_value(Unwrap(Unwrap(a).value)) ELSE None,
         body |-> IF IsSome(record.body) THEN get_string_value(Unwrap(record.body))
                  ELSE None,
         attributes |-> collect_hash_map(
             [i \in 1..Len(record.attributes) |->
                <<record.attributes[i].key,
                  IF IsSome(record.attributes[i].value)
                  THEN get_any_value_as_string(Unwrap(record.attributes[i].value))
                  ELSE None>>])]

parse_logs_proto(request, t) ==
    Ok(Flatten([r \in 1..Len(request.resource_logs) |->
         Flatten([s \in 1..Len(request.resource_logs[r].scope_logs) |->
            [i \in 1..Len(request.resource_logs[r].scope_logs[s].log_records) |->
               log_event_proto(request.resource_logs[r].scope_logs[s].log_records[i], t)]])]))

\* a decoder that stamps every record with the instant of the call
log_event_json_at_call(record, t) ==
    LET a == find_attribute(record.attributes, "event.name")
    IN  [timestamp |-> t,
         event_name |-> IF IsSome(a) THEN Unwrap(a).value.string_value ELSE None,
         body |-> IF IsSome(record.body) THEN Unwrap(record.body).string_value
                  ELSE None,
         attributes |-> collect_hash_map(
             [i \in 1..Len(record.attributes) |->
                <<record.attributes[i].key,
                  get_json_attribute_as_string(record.attributes[i].value)>>])]

\* the body of the innermost loop of parse_logs_json, at instant t
log_event_json(record, t) ==
    LET a == find_attribute(record.attributes, "event.name")
    IN  [timestamp |-> IF IsSome(record.time_unix_nano)
                       THEN timestamp_nanos(Unwrap(record.time_unix_nano)) ELSE t,
         event_name |-> IF IsSome(a) THEN Unwrap(a).value.string_value ELSE None,
         body |-> IF IsSome(record.body) THEN Unwrap(record.body).string_value
                  ELSE None,
         attributes |-> collect_hash_map(
             [i \in 1..Len(record.attributes) |->
                <<record.attributes[i].key,
                  get_json_attribute_as_string(record.attributes[i].value)>>])]

parse_logs_json(request, t) ==
    Ok(Flatten([r \in 1..Len(request.resource_logs) |->
         Flatten([s \in 1..Len(request.resource_logs[r].scope_logs) |->
            [i \in 1..Len(request.resource_logs[r].scope_logs[s].log_records) |->
               log_event_json(request.resource_logs[r].scope_logs[s].log_records[i], t)]])]))

\* a parse_logs that reports a body neither decoder accepts
parse_logs_rejecting(data, t) ==
    IF IsSome(data.protobuf) THEN parse_logs_proto(Unwrap(data.protobuf), t)
    ELSE LET request == deserialize_OtlpLogsRequest(data.json)
         IN  IF request.ok THEN parse_logs_json(request.value, t) ELSE Err

\* parse_logs: protobuf first, JSON as the fallback, and an empty batch when
\* the body is neither
parse_logs(data, t) ==
    IF IsSome(data.protobuf) THEN parse_logs_proto(Unwrap(data.protobuf), t)
    ELSE LET request == deserialize_OtlpLogsRequest(data.json)
         IN  IF request.ok THEN parse_logs_json(request.value, t) ELSE Ok(<<>>)

\* serde's reading of DataPoint, MetricSum, MetricGauge, Metric, ScopeMetrics,
\* ResourceMetrics and OtlpMetricsRequest from a document
DataPoint_ok(dp) ==
    /\ deserialize_optional_string_or_i64(dp.as_int).ok
    /\ \A k \in 1..Len(dp.attributes) : Attribute_ok(dp.attributes[k])
deserialize_DataPoint(dp) ==
    [as_int |-> deserialize_optional_string_or_i64(dp.as_int).value,
     as_double |-> dp.as_double,
     attributes |-> [k \in 1..Len(dp.attributes) |->
                       deserialize_Attribute(dp.attributes[k])]]

data_points_ok(field) ==
    IsSome(field) =>
        \A k \in 1..Len(Unwrap(field).data_points) :
            DataPoint_ok(Unwrap(field).data_points[k])
deserialize_data_points(field) ==
    IF ~IsSome(field) THEN None
    ELSE Some([data_points |-> [k \in 1..Len(Unwrap(field).data_points) |->
                                  deserialize_DataPoint(Unwrap(field).data_points[k])]])

Metric_ok(metric) == data_points_ok(metric.sum) /\ data_points_ok(metric.gauge)
deserialize_Metric(metric) ==
    [name |-> metric.name, sum |-> deserialize_data_points(metric.sum),
     gauge |-> deserialize_data_points(metric.gauge)]

deserialize_OtlpMetricsRequest(json) ==
    IF ~IsSome(json) \/ "resource_metrics" \notin DOMAIN Unwrap(json) THEN Err
    ELSE LET rm == Unwrap(json).resource_metrics
         IN  IF \A r \in 1..Len(rm) : \A sc \in 1..Len(rm[r].scope_metrics) :
                   \A m \in 1..Len(rm[r].scope_metrics[sc].metrics) :
                       Metric_ok(rm[r].scope_metrics[sc].metrics[m])
             THEN Ok([resource_metrics |-> [r \in 1..Len(rm) |->
                     [scope_metrics |-> [sc \in 1..Len(rm[r].scope_metrics) |->
                        [metrics |-> [m \in 1..Len(rm[r].scope_metrics[sc].metrics) |->
                           deserialize_Metric(rm[r].scope_metrics[sc].metrics[m])]]]]]])
             ELSE Err

\* the variants of ParsedMetric
TokenUsage(token_type, count) ==
    [kind |-> "TokenUsage", token_type |-> token_type, count |-> count]
CostUsage(cost_usd) == [kind |-> "CostUsage", cost_usd |-> cost_usd]
SessionMetric(name, value) == [kind |-> "SessionMetric", name |-> name, value |-> value]


\* the session metric's name: the three replace calls
session_metric_name(n) ==
    replace(replace(replace(n, "claude_code.", ""), ".count", ""), ".total", "")

\* the data points of a decoded protobuf metric: those of a Sum or a Gauge
data_points_proto(metric) ==
    IF IsSome(metric.data) /\ Unwrap(metric.data).kind \in {"Sum", "Gauge"}
    THEN Unwrap(metric.data).data_points ELSE <<>>

\* the match on the metric name in parse_metrics_proto: what one data point
\* pushes
project_proto(name, dp) ==
    LET a == find_attribute(dp.attributes, "type")
        token_type == IF IsSome(a) /\ IsSome(Unwrap(a).value)
                         /\ IsSome(get_string_value(Unwrap(Unwrap(a).value)))
                      THEN Unwrap(get_string_value(Unwrap(Unwrap(a).value)))
                      ELSE "unknown"
        int == IsSome(dp.value) /\ Unwrap(dp.value).kind = "AsInt"
        double == IsSome(dp.value) /\ Unwrap(dp.value).kind = "AsDouble"
        v == Unwrap(dp.value).v
    IN  IF name = "claude_code.token.usage"
        THEN <<TokenUsage(token_type,
                          IF int THEN i64_as_u64(v) ELSE IF double THEN f64_as_u64(v) ELSE 0)>>
        ELSE IF name = "claude_code.cost.usage"
        THEN <<CostUsage(IF double THEN v ELSE IF int THEN i64_as_f64(v) ELSE 0)>>
        ELSE IF StartsWith(name, "claude_code.")
        THEN <<SessionMetric(session_metric_name(name),
                             IF int THEN v ELSE IF double THEN f64_as_i64(v) ELSE 0)>>
        ELSE <<>>

parse_metrics_proto(request) ==
    Ok(Flatten([r \in 1..Len(request.resource_metrics) |->
         Flatten([s \in 1..Len(request.resource_metrics[r].scope_metrics) |->
            Flatten([m \in 1..Len(request.resource_metrics[r].scope_metrics[s].metrics) |->
               LET metric == request.resource_metrics[r].scope_metrics[s].metrics[m]
               IN  Flatten([d \in 1..Len(data_points_proto(metric)) |->
                      project_proto(metric.name, data_points_proto(metric)[d])])])])]))

\* the data points of a deserialized JSON metric: sum, or else gauge
data_points_json(metric) ==
    IF IsSome(metric.sum) THEN Unwrap(metric.sum).data_points
    ELSE IF IsSome(metric.gauge) THEN Unwrap(metric.gauge).data_points
    ELSE <<>>

\* the match on the metric name in parse_metrics_json
project_json(name, dp) ==
    LET a == find_attribute(dp.attributes, "type")
        token_type == IF IsSome(a) /\ IsSome(Unwrap(a).value.string_value)
                      THEN Unwrap(Unwrap(a).value.string_value) ELSE "unknown"
        as_int == IF IsSome(dp.as_int) THEN Unwrap(dp.as_int) ELSE 0
    IN  IF name = "claude_code.token.usage"
        THEN <<TokenUsage(token_type, i64_as_u64(as_int))>>
        ELSE IF name = "claude_code.cost.usage"
        THEN <<CostUsage(IF IsSome(dp.as_double) THEN Unwrap(dp.as_double) ELSE 0)>>
        ELSE IF name \in {"claude_code.lines_of_code.count", "claude_code.commit.count",
                          "claude_code.pull_request.count", "claude_code.active_time.total"}
        THEN <<SessionMetric(session_metric_name(name), as_int)>>
        ELSE <<>>

parse_metrics_json(request) ==
    Ok(Flatten([r \in 1..Len(request.resource_metrics) |->
         Flatten([s \in 1..Len(request.resource_metrics[r].scope_metrics) |->
            Flatten([m \in 1..Len(request.resource_metrics[r].scope_metrics[s].metrics) |->
               LET metric == request.resource_metrics[r].scope_metrics[s].metrics[m]
               IN  Flatten([d \in 1..Len(data_points_json(metric)) |->
                      project_json(metric.name, data_points_json(metric)[d])])])])]))

\* parse_metrics: protobuf first, JSON as the fallback, else nothing
parse_metrics(data) ==
    IF IsSome(data.protobuf) THEN parse_metrics_proto(Unwrap(data.protobuf))
    ELSE LET request == deserialize_OtlpMetricsRequest(data.json)
         IN  IF request.ok THEN parse_metrics_json(request.value) ELSE Ok(<<>>)

(***************************************************************************)
(* The storage actor                                                       *)
(***************************************************************************)
WriteKinds ==
    {"RecordToolEvent", "RecordLogEvents", "RecordTokenUsage", "RecordCost",
     "RecordSessionMetric"}
ReadKinds ==
    {"GetToolMetrics", "GetTokenMetrics", "GetLastToolError", "GetSessionMetrics",
     "GetApiMetrics"}

\* mpsc::Sender::send on a live channel: the command joins the queue's tail
channel_send(q, cmd) == Append(q, cmd)

\* the receiver takes the command at the other end and leaves the rest
channel_recv_newest(q) == [cmd |-> q[Len(q)], rest |-> SubSeq(q, 1, Len(q) - 1)]

\* the iteration "for cmd in receiver": the oldest command, and the rest
channel_recv(q) == [cmd |-> Head(q), rest |-> Tail(q)]

\* the receiving end exists until the actor thread leaves run_storage_actor
receiver_alive == actor # "stopped"

\* the match arm of a write command: the engine call it makes, stamped t
apply_write(db, cmd, t) ==
    CASE cmd.kind = "RecordToolEvent" -> record_tool_event(db, cmd.arg)
      [] cmd.kind = "RecordLogEvents" -> insert_log_events(db, cmd.arg)
      [] cmd.kind = "RecordTokenUsage" ->
            record_token_usage(db, t, cmd.arg.token_type, cmd.arg.count)
      [] cmd.kind = "RecordCost" -> record_cost(db, t, cmd.arg)
      [] cmd.kind = "RecordSessionMetric" ->
            record_session_metric(db, t, cmd.arg.name, cmd.arg.value)

\* the match arm of a read command: the replies the engine may give
read_replies(db, cmd) ==
    CASE cmd.kind = "GetToolMetrics" -> get_tool_metrics(db, cmd.arg)
      [] cmd.kind = "GetTokenMetrics" -> {get_token_metrics(db, cmd.arg)}
      [] cmd.kind = "GetLastToolError" -> get_last_tool_error(db, cmd.arg)
      [] cmd.kind = "GetSessionMetrics" -> get_session_metrics(db, cmd.arg)
      [] cmd.kind = "GetApiMetrics" -> get_api_metrics(db, cmd.arg)

NewCommand(c, kind, arg) ==
    [id |-> Len(history) + 1, caller |-> c, kind |-> kind, arg |-> arg]

\* the commands a caller's record_* calls put on the channel, numbered in the
\* order the channel accepts them
commands_of(c, calls) ==
    [i \in 1..Len(calls) |->
        [id |-> Len(history) + i, caller |-> c, kind |-> calls[i].kind,
         arg |-> calls[i].arg]]

RECURSIVE send_each(_, _)
send_each(q, cmds) ==
    IF Len(cmds) = 0 THEN q ELSE send_each(channel_send(q, Head(cmds)), Tail(cmds))

\* record_* calls made one after the other by one holder: send and forget; a
\* send on a closed channel is dropped silently
records(c, calls) ==
    /\ c \in senders
    /\ waiting[c] = None
    /\ IF receiver_alive
       THEN /\ queue' = send_each(queue, commands_of(c, calls))
            /\ history' = history \o commands_of(c, calls)
       ELSE UNCHANGED <<queue, history>>
    /\ lastCall' =
          IF Len(calls) = 0 THEN lastCall
          ELSE [lastCall EXCEPT ![c] =
                  Some([kind |-> calls[Len(calls)].kind,
                        id |-> IF receiver_alive THEN Len(history) + Len(calls) ELSE 0,
                        alive |-> receiver_alive, returns |-> "unit",
                        value |-> None])]

record(c, kind, arg) ==
    /\ records(c, <<[kind |-> kind, arg |-> arg]>>)
    /\ UNCHANGED <<conn, now, files, app, actor, senders, waiting, processed, errlog,
                   stopCause, http, result>>

\* get_*: send the command with a reply channel, then rx.recv(); the send
\* fails at once when the receiver is gone
get(c, kind, arg) ==
    /\ c \in senders
    /\ waiting[c] = None
    /\ IF receiver_alive
       THEN /\ queue' = channel_send(queue, NewCommand(c, kind, arg))
            /\ history' = Append(history, NewCommand(c, kind, arg))
            /\ waiting' = [waiting EXCEPT ![c] = Some(Len(history) + 1)]
            /\ lastCall' = [lastCall EXCEPT ![c] =
                   Some([kind |-> kind, id |-> Len(history) + 1, alive |-> TRUE,
                         returns |-> "pending", value |-> None])]
       ELSE /\ UNCHANGED <<queue, history, waiting>>
            /\ lastCall' = [lastCall EXCEPT ![c] =
                   Some([kind |-> kind, id |-> 0, alive |-> FALSE,
                         returns |-> "Err", value |-> None])]
    /\ UNCHANGED <<conn, now, files, app, actor, senders, processed, errlog, stopCause,
                   http, result>>

\* a caller drops its handle clone
DropHandle(c) ==
    /\ c \in senders
    /\ waiting[c] = None
    /\ senders' = senders \ {c}
    /\ UNCHANGED <<conn, now, files, app, queue, actor, waiting, lastCall, history,
                   processed, errlog, stopCause, http, result>>

\* the actor takes a write command and the engine call succeeds
ActorWrite ==
    /\ actor = "running"
    /\ queue # <<>>
    /\ LET got == channel_recv(queue)
       IN  /\ got.cmd.kind \in WriteKinds
           /\ conn' = apply_write(conn, got.cmd, now)
           /\ queue' = got.rest
           /\ processed' = Append(processed, [id |-> got.cmd.id, at |-> now,
                                           behind |-> Len(got.rest)])
    /\ UNCHANGED <<now, files, app, actor, senders, waiting, lastCall, history, errlog,
                   stopCause, http, result>>

\* the actor takes a read command and sends the engine's reply on its tx; the
\* caller's rx.recv() returns it
ActorRead ==
    /\ actor = "running"
    /\ queue # <<>>
    /\ LET got == channel_recv(queue)
           c == got.cmd.caller
       IN  /\ got.cmd.kind \in ReadKinds
           /\ \E reply \in read_replies(conn, got.cmd) :
                 lastCall' = [lastCall EXCEPT ![c] =
                     Some([Unwrap(@) EXCEPT !.returns = "Ok", !.value = Some(reply)])]
           /\ waiting' = [waiting EXCEPT ![c] = None]
           /\ queue' = got.rest
           /\ processed' = Append(processed, [id |-> got.cmd.id, at |-> now,
                                           behind |-> Len(got.rest)])
    /\ UNCHANGED <<conn, now, files, app, actor, senders, history, errlog, stopCause,
                   http, result>>

\* StorageCommand::Shutdown => break: the loop is left with the receiver, and
\* whatever is queued behind the command, still in place
ActorShutdown ==
    /\ actor = "running"
    /\ queue # <<>>
    /\ LET got == channel_recv(queue)
       IN  /\ got.cmd.kind = "Shutdown"
           /\ queue' = got.rest
           /\ processed' = Append(processed, [id |-> got.cmd.id, at |-> now,
                                           behind |-> Len(got.rest)])
    /\ actor' = "exiting"
    /\ stopCause' = Some("shutdown")
    /\ UNCHANGED <<conn, now, files, app, senders, waiting, lastCall, history, errlog,
                   http, result>>

\* an iteration that ends as soon as every sender is dropped
ActorDisconnectedAtOnce ==
    /\ actor = "running"
    /\ senders = {}
    /\ actor' = "exiting"
    /\ stopCause' = Some("disconnected")
    /\ UNCHANGED <<conn, now, files, app, queue, senders, waiting, lastCall, history,
                   processed, errlog, http, result>>

\* the iteration ends when the queue is empty and every sender is dropped
ActorDisconnected ==
    /\ actor = "running"
    /\ queue = <<>>
    /\ senders = {}
    /\ actor' = "exiting"
    /\ stopCause' = Some("disconnected")
    /\ UNCHANGED <<conn, now, files, app, queue, senders, waiting, lastCall, history,
                   processed, errlog, http, result>>

\* a drop of the receiver that lets the queued reply channels live on
woken_by_nothing(q) == {}

\* the callers whose pending read dies with the queue: its tx is dropped, so
\* rx.recv() returns Err
woken_by_drop(q) == {q[i].caller : i \in {j \in 1..Len(q) : q[j].kind \in ReadKinds}}

\* run_storage_actor returns: the receiver is dropped and the queued commands
\* with it
ActorDropReceiver ==
    /\ actor = "exiting"
    /\ actor' = "stopped"
    /\ queue' = <<>>
    /\ waiting' = [c \in Callers |-> IF c \in woken_by_drop(queue) THEN None
                                      ELSE waiting[c]]
    /\ lastCall' = [c \in Callers |->
                      IF c \in woken_by_drop(queue)
                      THEN Some([Unwrap(lastCall[c]) EXCEPT !.returns = "Err"])
                      ELSE lastCall[c]]
    /\ UNCHANGED <<conn, now, files, app, senders, history, processed, errlog, stopCause,
                   http, result>>

\* a failed write handled with "?": the error leaves run_storage_actor
after_write_error_propagated == "exiting"

\* "if let Err(e) = ... { tracing::error!(...) }": the loop goes on
after_write_error == "running"

\* what a failed engine call leaves in the database: insert_log_events keeps
\* the rows it inserted before the failing one, the single INSERTs nothing
failed_write_outcomes(db, cmd) ==
    IF cmd.kind = "RecordLogEvents"
    THEN {insert_log_events(db, SubSeq(cmd.arg, 1, k)) : k \in 0..(Len(cmd.arg) - 1)}
    ELSE {db}

\* the actor takes a write command and the engine call returns Err
ActorWriteFails ==
    /\ actor = "running"
    /\ queue # <<>>
    /\ LET got == channel_recv(queue)
       IN  /\ got.cmd.kind \in WriteKinds
           /\ \E db \in failed_write_outcomes(conn, got.cmd) : conn' = db
           /\ queue' = got.rest
           /\ processed' = Append(processed, [id |-> got.cmd.id, at |-> now,
                                           behind |-> Len(got.rest)])
           /\ errlog' = Append(errlog, got.cmd.id)
    /\ actor' = after_write_error
    /\ stopCause' = IF after_write_error = "running" THEN stopCause ELSE Some("error")
    /\ UNCHANGED <<now, files, app, senders, waiting, lastCall, history, http, result>>

(***************************************************************************)
(* The OTLP receiver (otlp/mod.rs)                                         *)
(***************************************************************************)
\* the holder of the handle the router was given as its state
Server == "c2"

\* the record_* call handle_metrics makes for a parsed metric
call_of_metric(metric) ==
    CASE metric.kind = "TokenUsage" ->
            [kind |-> "RecordTokenUsage",
             arg |-> [token_type |-> metric.token_type, count |-> metric.count]]
      [] metric.kind = "CostUsage" -> [kind |-> "RecordCost", arg |-> metric.cost_usd]
      [] metric.kind = "SessionMetric" ->
            [kind |-> "RecordSessionMetric",
             arg |-> [name |-> metric.name, value |-> metric.value]]

\* what the request leaves in the log of the receiver: the status it answered
\* and the ids of the commands the channel accepted from it
Answered(route, body, status, calls) ==
    http' = Append(http,
        [route |-> route, body |-> body, status |-> status,
         sent |-> IF receiver_alive THEN [i \in 1..Len(calls) |-> Len(history) + i]
                  ELSE <<>>])

handle_metrics(body) ==
    /\ LET parsed == parse_metrics(body)
       IN  IF parsed.ok
           THEN LET calls == [i \in 1..Len(parsed.value) |->
                                call_of_metric(parsed.value[i])]
                IN  records(Server, calls) /\ Answered("/v1/metrics", body, 200, calls)
           ELSE /\ Answered("/v1/metrics", body, 400, <<>>)
                /\ UNCHANGED <<queue, history, lastCall>>
    /\ UNCHANGED <<conn, now, files, app, actor, senders, waiting, processed, errlog,
                   stopCause, result>>

handle_logs(body) ==
    /\ LET parsed == parse_logs(body, now)
       IN  IF parsed.ok
           THEN LET calls == <<[kind |-> "RecordLogEvents", arg |-> parsed.value]>>
                IN  records(Server, calls) /\ Answered("/v1/logs", body, 200, calls)
           ELSE /\ Answered("/v1/logs", body, 400, <<>>)
                /\ UNCHANGED <<queue, history, lastCall>>
    /\ UNCHANGED <<conn, now, files, app, actor, senders, waiting, processed, errlog,
                   stopCause, result>>

handle_traces(body) ==
    /\ Answered("/v1/traces", body, 200, <<>>)
    /\ UNCHANGED <<conn, now, files, app, actorVars, result>>

(***************************************************************************)
(* The providers' ensure_configured (providers/*.rs)                       *)
(*                                                                         *)
(* A serde_json::Value is [t, s, o]: its variant, the text of a scalar and *)
(* the members of an object.  A file's content is what the file system and *)
(* serde_json make of its bytes: whether it can be read, how the text is   *)
(* laid out, and the document it parses to, if it is valid JSON.           *)
(***************************************************************************)
OTLP_ENDPOINT == "http://localhost:4318"

NoMembers == [k \in {} |-> ""]
Value_Null == [t |-> "Null", s |-> "", o |-> NoMembers]
Value_Bool(b) == [t |-> "Bool", s |-> bool_to_string(b), o |-> NoMembers]
Value_String(str) == [t |-> "String", s |-> str, o |-> NoMembers]
Value_Array == [t |-> "Array", s |-> "", o |-> NoMembers]
Value_Object(members) == [t |-> "Object", s |-> "", o |-> members]

\* Value::get(key): the member of an object, None on anything else
value_get(v, key) ==
    IF v.t = "Object" /\ key \in DOMAIN v.o THEN Some(v.o[key]) ELSE None

\* opt.and_then(|v| v.as_str())
and_then_as_str(opt) ==
    IF IsSome(opt) /\ Unwrap(opt).t = "String" THEN Some(Unwrap(opt).s) ELSE None

\* v[key] = new (IndexMut): an object takes the member, null becomes an object
\* with that member; on any other variant the index panics
index_panics(v) == v.t \notin {"Object", "Null"}
index_assign(v, key, new) ==
    Value_Object([k \in DOMAIN v.o \cup {key} |-> IF k = key THEN new ELSE v.o[k]])

\* Map::remove(key)
object_remove(v, key) == Value_Object([k \in DOMAIN v.o \ {key} |-> v.o[k]])

\* a parser that takes what is not JSON for null
from_str_or_null(content) ==
    IF IsSome(content.json) THEN Ok(Unwrap(content.json)) ELSE Ok(Value_Null)

\* serde_json::to_string_pretty, fs::read_to_string and serde_json::from_str
to_string_pretty(v) == [readable |-> TRUE, layout |-> "pretty", json |-> Some(v)]
read_to_string(content) == IF content.readable THEN Ok(content) ELSE Err
from_str(content) == IF IsSome(content.json) THEN Ok(Unwrap(content.json)) ELSE Err

\* what a write that fails part-way leaves behind
torn == [readable |-> TRUE, layout |-> "torn", json |-> None]

\* the json! literals of the branch that creates the file
claude_code_required_env ==
    [k \in {"CLAUDE_CODE_ENABLE_TELEMETRY", "OTEL_METRICS_EXPORTER",
            "OTEL_LOGS_EXPORTER", "OTEL_EXPORTER_OTLP_PROTOCOL",
            "OTEL_EXPORTER_OTLP_ENDPOINT"} |->
        CASE k = "CLAUDE_CODE_ENABLE_TELEMETRY" -> Value_String("1")
          [] k = "OTEL_METRICS_EXPORTER" -> Value_String("otlp")
          [] k = "OTEL_LOGS_EXPORTER" -> Value_String("otlp")
          [] k = "OTEL_EXPORTER_OTLP_PROTOCOL" -> Value_String("http/protobuf")
          [] k = "OTEL_EXPORTER_OTLP_ENDPOINT" -> Value_String(OTLP_ENDPOINT)]
claude_code_new_settings ==
    Value_Object([k \in {"enableTelemetry", "env"} |->
        IF k = "enableTelemetry" THEN Value_Bool(TRUE)
        ELSE Value_Object(claude_code_required_env)])

gemini_cli_telemetry ==
    Value_Object([k \in {"enabled", "target", "otlpEndpoint", "otlpProtocol"} |->
        CASE k = "enabled" -> Value_Bool(TRUE)
          [] k = "target" -> Value_String("local")
          [] k = "otlpEndpoint" -> Value_String(OTLP_ENDPOINT)
          [] k = "otlpProtocol" -> Value_String("http")])
gemini_cli_new_settings ==
    Value_Object([k \in {"telemetry"} |-> gemini_cli_telemetry])

\* ClaudeCodeProvider::ensure_configured on the parsed settings: whether an
\* index panics, whether modified is set, and the settings to write
claude_code_needs_env_update(settings) ==
    LET env_block == value_get(settings, "env")
        env_str(key) == IF IsSome(env_block)
                        THEN and_then_as_str(value_get(Unwrap(env_block), key))
                        ELSE None
    IN  \/ env_block = None
        \/ env_str("CLAUDE_CODE_ENABLE_TELEMETRY") # Some("1")
        \/ env_str("OTEL_METRICS_EXPORTER") # Some("otlp")
        \/ env_str("OTEL_LOGS_EXPORTER") # Some("otlp")
        \/ env_str("OTEL_EXPORTER_OTLP_ENDPOINT") # Some(OTLP_ENDPOINT)

RECURSIVE assign_each(_, _, _)
assign_each(v, keys, members) ==
    IF keys = {} THEN v
    ELSE LET k == CHOOSE x \in keys : TRUE
         IN  assign_each(index_assign(v, k, members[k]), keys \ {k}, members)

claude_code_update(settings) ==
    LET set_enable == value_get(settings, "enableTelemetry") # Some(Value_Bool(TRUE))
        panic1 == set_enable /\ index_panics(settings)
        s1 == IF set_enable /\ ~panic1
              THEN index_assign(settings, "enableTelemetry", Value_Bool(TRUE))
              ELSE settings
        needs_env_update == claude_code_needs_env_update(s1)
        s2 == IF needs_env_update /\ value_get(s1, "env") = None
              THEN index_assign(s1, "env", Value_Object(NoMembers)) ELSE s1
        env == IF IsSome(value_get(s2, "env")) THEN Unwrap(value_get(s2, "env"))
               ELSE Value_Null
        panic2 == needs_env_update /\ index_panics(env)
        s3 == IF needs_env_update /\ ~panic2
              THEN index_assign(s2, "env",
                       assign_each(env, DOMAIN claude_code_required_env,
                                   claude_code_required_env))
              ELSE s2
        migrate == IsSome(value_get(s3, "telemetry")) /\ s3.t = "Object"
        s4 == IF migrate THEN object_remove(s3, "telemetry") ELSE s3
    IN  [panics |-> panic1 \/ (~panic1 /\ panic2),
         modified |-> set_enable \/ needs_env_update \/ migrate,
         settings |-> s4]

\* the comparison against a target the call does not write
gemini_cli_needs_update_for_gcp(settings) ==
    LET telemetry == value_get(settings, "telemetry")
        t == Unwrap(telemetry)
    IN  \/ telemetry = None
        \/ value_get(t, "enabled") # Some(Value_Bool(TRUE))
        \/ and_then_as_str(value_get(t, "target")) # Some("gcp")
        \/ and_then_as_str(value_get(t, "otlpEndpoint")) # Some(OTLP_ENDPOINT)

\* GeminiCliProvider::ensure_configured on the parsed settings
gemini_cli_needs_update(settings) ==
    LET telemetry == value_get(settings, "telemetry")
        t == Unwrap(telemetry)
    IN  \/ telemetry = None
        \/ value_get(t, "enabled") # Some(Value_Bool(TRUE))
        \/ and_then_as_str(value_get(t, "target")) # Some("local")
        \/ and_then_as_str(value_get(t, "otlpEndpoint")) # Some(OTLP_ENDPOINT)

gemini_cli_update(settings) ==
    LET needs_update == gemini_cli_needs_update(settings)
        panics == needs_update /\ index_panics(settings)
    IN  [panics |-> panics,
         modified |-> needs_update,
         settings |-> IF needs_update /\ ~panics
                      THEN index_assign(settings, "telemetry", gemini_cli_telemetry)
                      ELSE settings]

\* QwenCodeProvider::ensure_configured: the same code on its own path
qwen_code_update(settings) == gemini_cli_update(settings)

new_settings(provider) ==
    IF provider = "claude_code" THEN claude_code_new_settings
    ELSE gemini_cli_new_settings

update(provider, settings) ==
    CASE provider = "claude_code" -> claude_code_update(settings)
      [] provider = "gemini_cli" -> gemini_cli_update(settings)
      [] provider = "qwen_code" -> qwen_code_update(settings)

\* what a call leaves: what it returned, the files, and the file operations
\* that took effect, in order
Outcome(returned, fs, ops) == [returned |-> returned, fs |-> fs, ops |-> ops]

\* fs::write(settings_path, ...) alone
write_only(fs, path, written) == [fs EXCEPT ![path] = Some(written)]

\* the two calls the other way round: the copy is of the rewritten file
write_then_backup(fs, path, written) ==
    [[fs EXCEPT ![path] = Some(written)] EXCEPT ![backup_path(path)] = Some(written)]

\* fs::copy(settings_path, backup_path), then fs::write(settings_path, ...)
backup_first(fs, path, written) ==
    [[fs EXCEPT ![backup_path(path)] = fs[path]] EXCEPT ![path] = Some(written)]

\* the modified branch: the copy may fail (leaving the backup as it was or
\* torn), then the write may fail (leaving the settings as they were or
\* torn), else both take effect
write_settings(fs, path, written) ==
    LET backup == backup_path(path)
        copied == [fs EXCEPT ![backup] = fs[path]]
    IN  {Outcome("Err", fs, <<>>),
         Outcome("Err", [fs EXCEPT ![backup] = Some(torn)], <<"copy">>),
         Outcome("Err", copied, <<"copy">>),
         Outcome("Err", [copied EXCEPT ![path] = Some(torn)], <<"copy", "write">>),
         Outcome("Ok(true)", backup_first(fs, path, written), <<"copy", "write">>)}

\* the branch of a settings file that does not exist
create_settings(fs, path, written) ==
    {Outcome("Err", fs, <<>>),
     Outcome("Err", [fs EXCEPT ![path] = Some(torn)], <<"write">>),
     Outcome("Ok(true)", write_only(fs, path, written), <<"write">>)}

\* Provider::ensure_configured: every outcome of a call on the files fs
ensure_configured(provider, fs) ==
    LET path == settings_path(provider)
    IN  \* dirs::home_dir() is None
        {Outcome("Err", fs, <<>>)}
        \cup
        IF fs[path] = None
        THEN create_settings(fs, path, to_string_pretty(new_settings(provider)))
        ELSE LET content == read_to_string(Unwrap(fs[path]))
             IN  IF ~content.ok THEN {Outcome("Err", fs, <<>>)}
                 ELSE LET settings == from_str(content.value)
                      IN  IF ~settings.ok THEN {Outcome("Err", fs, <<>>)}
                          ELSE LET u == update(provider, settings.value)
                               IN  IF u.panics THEN {Outcome("panic", fs, <<>>)}
                                   ELSE IF u.modified
                                   THEN write_settings(fs, path,
                                                       to_string_pretty(u.settings))
                                   ELSE {Outcome("Ok(false)", fs, <<>>)}

(***************************************************************************)
(* Bounds                                                                  *)
(***************************************************************************)
MaxTokenRows == 2

\* the instants of the clock
Times == {0, 1}
\* the since of a query: None, or an instant up to one tick past the clock
Sinces == {None} \cup {Some(t) : t \in Times \cup {2}}

\* the clock advances
Tick ==
    /\ now + 1 \in Times
    /\ now' = now + 1
    /\ UNCHANGED <<conn, actorVars, http, result, files, app>>

(***************************************************************************)
(* The token tables and get_token_metrics, driven on the engine            *)
(***************************************************************************)
\* every spelling a provider or the query names, and three nobody names
RawTokenTypes ==
    {"input", "input_tokens", "output", "output_tokens", "cacheRead",
     "cache_read", "cache_hit", "cacheCreation", "cache_creation",
     "cache_write", "prompt_tokens", "completion_tokens", "prompt",
     "completion", "cache", "cache_tokens", "thought", "tool", "unknown"}
Counts == {2}
Costs == {3}

StoreTokenUsage(token_type, count) ==
    /\ Len(conn.token_usage) + Len(conn.cost_usage) < MaxTokenRows
    /\ conn' = record_token_usage(conn, now, token_type, count)
    /\ result' = None
    /\ UNCHANGED <<now, files, app, actorVars, http>>

StoreCost(cost_usd) ==
    /\ Len(conn.token_usage) + Len(conn.cost_usage) < MaxTokenRows
    /\ conn' = record_cost(conn, now, cost_usd)
    /\ result' = None
    /\ UNCHANGED <<now, files, app, actorVars, http>>

QueryTokenMetrics(since) ==
    /\ result' = Some([op |-> "get_token_metrics", since |-> since,
                       value |-> get_token_metrics(conn, since)])
    /\ UNCHANGED <<conn, now, files, app, actorVars, http>>

NextTokens ==
    \/ Tick
    \/ \E token_type \in RawTokenTypes, count \in Counts :
          StoreTokenUsage(token_type, count)
    \/ \E cost_usd \in Costs : StoreCost(cost_usd)
    \/ \E since \in Sinces : QueryTokenMetrics(since)

SpecTokens == Init /\ [][NextTokens]_vars

(***************************************************************************)
(* The event tables and get_tool_metrics, driven on the engine             *)
(***************************************************************************)
MaxToolRows == 2

\* the instants an event may carry: the caller (tool_events) or the payload
\* (log_events) stamps it, so it may lie ahead of the clock
EventTimes == Times \cup {2}

NoAttributes == [k \in {} |-> ""]

ToolEventInputs ==
    {[timestamp |-> t, tool_name |-> "Read", success |-> ok, duration_ms |-> 7,
      error |-> IF ok THEN None ELSE Some("boom")]
        : t \in EventTimes, ok \in BOOLEAN}

EventNames ==
    {None, Some("tool_result"), Some("claude_code.tool_result"),
     Some("tool.result"), Some("tool_results")}

LogEventInputs ==
    {[timestamp |-> t, event_name |-> e, body |-> None, attributes |-> a]
        : t \in EventTimes, e \in EventNames,
          a \in {[tool_name |-> "Bash", success |-> "true", duration_ms |-> "5"],
                 NoAttributes}}

StoreToolEvent(event) ==
    /\ Len(conn.tool_events) + Len(conn.log_events) < MaxToolRows
    /\ conn' = record_tool_event(conn, event)
    /\ result' = None
    /\ UNCHANGED <<now, files, app, actorVars, http>>

StoreLogEvents(events) ==
    /\ Len(conn.tool_events) + Len(conn.log_events) + Len(events) <= MaxToolRows
    /\ conn' = insert_log_events(conn, events)
    /\ result' = None
    /\ UNCHANGED <<now, files, app, actorVars, http>>

QueryToolMetrics(since) ==
    /\ \E rows \in get_tool_metrics(conn, since) :
          result' = Some([op |-> "get_tool_metrics", since |-> since,
                          at |-> now, value |-> rows])
    /\ UNCHANGED <<conn, now, files, app, actorVars, http>>

NextTools ==
    \/ Tick
    \/ \E event \in ToolEventInputs : StoreToolEvent(event)
    \/ \E event \in LogEventInputs : StoreLogEvents(<<event>>)
    \/ \E since \in {None, Some(1)} : QueryToolMetrics(since)

SpecTools == Init /\ [][NextTools]_vars

(***************************************************************************)
(* Tool calls of two tools, recorded on both tables, and the two queries   *)
(* over them, driven on the engine                                         *)
(***************************************************************************)
MaxCalls == 3

\* the instants a call may carry: before and after the since of a query
CallTimes == {0, 2}

\* legacy rows of the tool Bash: a success, and a failure with its error
LegacyCalls ==
    {[timestamp |-> 0, tool_name |-> "Bash", success |-> TRUE,
      duration_ms |-> 7, error |-> None]}
    \cup {[timestamp |-> t, tool_name |-> "Bash", success |-> FALSE,
           duration_ms |-> 7, error |-> Some("boom")] : t \in CallTimes}

\* log events: a successful Bash call, a call that names no tool, and a
\* Bash call that reports an error without a success attribute
LogCalls ==
    {[timestamp |-> t, event_name |-> Some(e), body |-> None, attributes |-> a]
        : t \in CallTimes, e \in {"tool_result", "api_request"},
          a \in {[tool_name |-> "Bash", success |-> "true"],
                 NoAttributes,
                 [tool_name |-> "Bash", error |-> "denied"]}}

RecordToolCall(event) ==
    /\ Len(conn.tool_events) + Len(conn.log_events) < MaxCalls
    /\ conn' = record_tool_event(conn, event)
    /\ result' = None
    /\ UNCHANGED <<now, files, app, actorVars, http>>

RecordLogCall(event) ==
    /\ Len(conn.tool_events) + Len(conn.log_events) < MaxCalls
    /\ conn' = insert_log_events(conn, <<event>>)
    /\ result' = None
    /\ UNCHANGED <<now, files, app, actorVars, http>>

QueryLastToolError(tool_name) ==
    /\ \E reply \in get_last_tool_error(conn, tool_name) :
          result' = Some([op |-> "get_last_tool_error", tool_name |-> tool_name,
                          value |-> reply])
    /\ UNCHANGED <<conn, now, files, app, actorVars, http>>

NextCalls ==
    \/ \E event \in LegacyCalls : RecordToolCall(event)
    \/ \E event \in LogCalls : RecordLogCall(event)
    \/ \E since \in {None, Some(1)} : QueryToolMetrics(since)
    \/ \E tool_name \in {"Bash", "unknown"} : QueryLastToolError(tool_name)

SpecCalls == Init /\ [][NextCalls]_vars

(***************************************************************************)
(* Tool calls of the providers' tools, classified                          *)
(***************************************************************************)
MaxClassified == 2

\* a tool of Claude Code, one of Codex only, one of Gemini, Qwen and Codex,
\* one of Gemini only, and two tools of no provider
ClassifiedNames ==
    {"Bash", "shell", "read_file", "run_shell_command", "mcp__github__search",
     "bash"}

RecordClassified(tool_name, success) ==
    /\ Len(conn.tool_events) < MaxClassified
    /\ conn' = record_tool_event(conn,
                    [timestamp |-> now, tool_name |-> tool_name, success |-> success,
                     duration_ms |-> 7, error |-> IF success THEN None ELSE Some("boom")])
    /\ result' = None
    /\ UNCHANGED <<now, files, app, actorVars, http>>

NextClassify ==
    \/ \E tool_name \in ClassifiedNames, success \in BOOLEAN :
          RecordClassified(tool_name, success)
    \/ QueryToolMetrics(None)

SpecClassify == Init /\ [][NextClassify]_vars

(***************************************************************************)
(* The session_metrics table and get_session_metrics, driven on the engine *)
(***************************************************************************)
MaxSessionRows == 2

\* the names the query maps, the name the codec stores a commit count under
\* and the name of a metric no field takes
SessionMetricNames ==
    {"lines_of_code", "loc", "commits", "commit_count", "active_time", "commit",
     "pull_request"}
SessionValues == {1, 2}

StoreSessionMetric(metric_name, value) ==
    /\ Len(conn.session_metrics) < MaxSessionRows
    /\ conn' = record_session_metric(conn, now, metric_name, value)
    /\ result' = None
    /\ UNCHANGED <<now, files, app, actorVars, http>>

QuerySessionMetrics(since) ==
    /\ \E reply \in get_session_metrics(conn, since) :
          result' = Some([op |-> "get_session_metrics", since |-> since,
                          value |-> reply])
    /\ UNCHANGED <<conn, now, files, app, actorVars, http>>

NextSessions ==
    \/ Tick
    \/ \E metric_name \in SessionMetricNames, value \in SessionValues :
          StoreSessionMetric(metric_name, value)
    \/ \E since \in {None, Some(1)} : QuerySessionMetrics(since)

SpecSessions == Init /\ [][NextSessions]_vars

(***************************************************************************)
(* API events in log_events and get_api_metrics, driven on the engine      *)
(***************************************************************************)
MaxApiRows == 2

ApiEventNames ==
    {"api_request", "claude_code.api_request", "api.request", "api_error",
     "api.error", "tool_result"}

\* a model with a latency, the same model with a duration only, another model
\* with both, and an event that carries neither model nor latency
ApiAttributes ==
    {[model |-> "opus", latency_ms |-> "4"],
     [model |-> "opus", duration_ms |-> "2"],
     [model |-> "haiku", latency_ms |-> "1", duration_ms |-> "9"],
     NoAttributes}

ApiEvents ==
    {[timestamp |-> t, event_name |-> Some(e), body |-> None, attributes |-> a]
        : t \in CallTimes, e \in ApiEventNames, a \in ApiAttributes}

StoreApiEvent(event) ==
    /\ Len(conn.log_events) < MaxApiRows
    /\ conn' = insert_log_events(conn, <<event>>)
    /\ result' = None
    /\ UNCHANGED <<now, files, app, actorVars, http>>

QueryApiMetrics(since) ==
    /\ \E reply \in get_api_metrics(conn, since) :
          result' = Some([op |-> "get_api_metrics", since |-> since, value |-> reply])
    /\ UNCHANGED <<conn, now, files, app, actorVars, http>>

NextApi ==
    \/ \E event \in ApiEvents : StoreApiEvent(event)
    \/ \E since \in {None, Some(1)} : QueryApiMetrics(since)

SpecApi == Init /\ [][NextApi]_vars

(***************************************************************************)
(* The settings files and ensure_configured                                *)
(***************************************************************************)
\* a document as its owner wrote it: valid JSON in a layout of their own
written_by_hand(v) == [readable |-> TRUE, layout |-> "by hand", json |-> Some(v)]

Members1(k1, v1) == [k \in {k1} |-> v1]
Members2(k1, v1, k2, v2) == [k \in {k1, k2} |-> IF k = k1 THEN v1 ELSE v2]

\* settings of Claude Code: configured; configured but for the protocol;
\* telemetry off, an exporter set otherwise, and keys of the owner's at top
\* level and in env; configured, with the legacy telemetry block; an env that
\* is no object
ClaudeSettings ==
    {claude_code_new_settings,
     Value_Object(Members2("enableTelemetry", Value_Bool(TRUE), "env",
        Value_Object([k \in DOMAIN claude_code_required_env
                            \ {"OTEL_EXPORTER_OTLP_PROTOCOL"} |->
                        claude_code_required_env[k]]))),
     Value_Object([k \in {"enableTelemetry", "theme", "env"} |->
        CASE k = "enableTelemetry" -> Value_Bool(FALSE)
          [] k = "theme" -> Value_String("dark")
          [] k = "env" -> Value_Object(Members2("FOO", Value_String("bar"),
                              "OTEL_METRICS_EXPORTER", Value_String("none")))]),
     index_assign(claude_code_new_settings, "telemetry",
                  Value_Object(Members1("enabled", Value_Bool(TRUE)))),
     Value_Object(Members1("env", Value_String("none")))}

\* settings of Gemini CLI and Qwen Code: configured; configured but for the
\* protocol; telemetry off with a key of the owner's in the block and one at
\* top level; a telemetry that is no object
GeminiSettings ==
    {gemini_cli_new_settings,
     Value_Object(Members1("telemetry",
        index_assign(gemini_cli_telemetry, "otlpProtocol", Value_String("grpc")))),
     Value_Object(Members2("theme", Value_String("dark"), "telemetry",
        Value_Object(Members2("enabled", Value_Bool(FALSE),
                              "logPrompts", Value_Bool(TRUE))))),
     Value_Object(Members1("telemetry", Value_String("off")))}

\* the settings file before the first call: absent, unreadable, not JSON, or a
\* document: an empty object, null, an array, or one of the settings above
InitialSettings ==
    {None,
     Some([readable |-> FALSE, layout |-> "by hand", json |-> None]),
     Some([readable |-> TRUE, layout |-> "by hand", json |-> None])}
    \cup {Some(written_by_hand(v))
            : v \in {Value_Object(NoMembers), Value_Null, Value_Array}
                    \cup ClaudeSettings \cup GeminiSettings}

\* the backup before the first call: absent, or left by an earlier run
InitialBackups == {None, Some(written_by_hand(Value_Object(NoMembers)))}

InitSettings ==
    /\ InitStorage
    /\ \E provider \in SettingsProviders, settings \in InitialSettings,
          backup \in InitialBackups :
          files = [path \in Paths |->
                      IF path = settings_path(provider) THEN settings
                      ELSE IF path = backup_path(settings_path(provider)) THEN backup
                      ELSE None]

\* a call of ensure_configured; result keeps what it returned, the files
\* before it, and what the call before it returned when that was the same
\* provider's
EnsureConfigured(provider) ==
    /\ \E outcome \in ensure_configured(provider, files) :
          /\ files' = outcome.fs
          /\ result' = Some([op |-> "ensure_configured", provider |-> provider,
                             returned |-> outcome.returned, ops |-> outcome.ops,
                             before |-> files,
                             prior |-> IF IsSome(result)
                                          /\ Unwrap(result).provider = provider
                                       THEN Some(Unwrap(result).returned)
                                       ELSE None])
    /\ UNCHANGED <<conn, now, actorVars, http, app>>

NextSettings == \E provider \in SettingsProviders : EnsureConfigured(provider)

SpecSettings == InitSettings /\ [][NextSettings]_vars

(***************************************************************************)
(* agenttop --setup <PROVIDER> (main.rs)                                   *)
(***************************************************************************)
\* the names --setup is given: the providers, their sum, and a name of none
SetupNames == {"claude", "gemini", "qwen", "codex", "openai", "all", "cursor"}

providers_to_setup(provider_name) ==
    IF provider_name = "all" THEN <<"claude", "gemini", "qwen">>
    ELSE <<provider_name>>

\* the match on the name: a provider id, or None where the arm continues
provider_id_of(name) ==
    CASE name = "claude" -> Some("claude_code")
      [] name = "gemini" -> Some("gemini_cli")
      [] name = "qwen" -> Some("qwen_code")
      [] OTHER -> None

\* the loop of run_setup over the names left, on the files fs: every arm of
\* the match on ensure_configured() prints and goes on; a panic ends the
\* process with status 101. failed lists the providers whose call did not
\* return Ok. After the loop run_setup returns Ok(()) and main exits 0.
RECURSIVE setup_each(_, _, _)
setup_each(names, fs, failed) ==
    IF Len(names) = 0 THEN {[exit |-> 0, fs |-> fs, failed |-> failed]}
    ELSE LET id == provider_id_of(Head(names))
         IN  IF id = None THEN setup_each(Tail(names), fs, failed)
             ELSE UNION {
                 IF o.returned = "panic"
                 THEN {[exit |-> 101, fs |-> o.fs, failed |-> Append(failed, Unwrap(id))]}
                 ELSE setup_each(Tail(names), o.fs,
                                 IF o.returned = "Err" THEN Append(failed, Unwrap(id))
                                 ELSE failed)
                 : o \in ensure_configured(Unwrap(id), fs)}

run_setup(provider_name, fs) == setup_each(providers_to_setup(provider_name), fs, <<>>)

\* main with --setup: the process runs run_setup and exits
RunSetup(provider_name) ==
    /\ \E outcome \in run_setup(provider_name, files) :
          /\ files' = outcome.fs
          /\ result' = Some([op |-> "run_setup", provider_name |-> provider_name,
                             exit |-> outcome.exit, failed |-> outcome.failed,
                             before |-> files])
    /\ UNCHANGED <<conn, now, actorVars, http, app>>

NextSetup == \E provider_name \in SetupNames : RunSetup(provider_name)

SpecSetup == InitSettings /\ [][NextSetup]_vars

(***************************************************************************)
(* Tool calls with outcomes, durations and decisions, and get_tool_metrics *)
(* over them, driven on the engine                                         *)
(***************************************************************************)
MaxMetricRows == 3

\* legacy rows of Bash: a success or a failure, short or long
RowLegacyCalls ==
    {[timestamp |-> 0, tool_name |-> "Bash", success |-> ok, duration_ms |-> d,
      error |-> IF ok THEN None ELSE Some("boom")] : ok \in BOOLEAN, d \in {3, 9}}

\* tool_result events: approved, rejected without an outcome or a duration,
\* auto-approved of another tool, and failed with a decision the query does
\* not count
RowLogCalls ==
    {[timestamp |-> 0, event_name |-> Some("tool_result"), body |-> None,
      attributes |-> a]
        : a \in {[tool_name |-> "Bash", success |-> "true", duration_ms |-> "5",
                  decision |-> "approved"],
                 [tool_name |-> "Bash", decision |-> "rejected"],
                 [tool_name |-> "Read", success |-> "1", duration_ms |-> "12",
                  decision |-> "auto_approved"],
                 [tool_name |-> "Bash", success |-> "false", decision |-> "pending"]}}

RecordRowLegacy(event) ==
    /\ Len(conn.tool_events) + Len(conn.log_events) < MaxMetricRows
    /\ conn' = record_tool_event(conn, event)
    /\ result' = None
    /\ UNCHANGED <<now, files, app, actorVars, http>>

RecordRowLog(event) ==
    /\ Len(conn.tool_events) + Len(conn.log_events) < MaxMetricRows
    /\ conn' = insert_log_events(conn, <<event>>)
    /\ result' = None
    /\ UNCHANGED <<now, files, app, actorVars, http>>

NextRows ==
    \/ \E event \in RowLegacyCalls : RecordRowLegacy(event)
    \/ \E event \in RowLogCalls : RecordRowLog(event)
    \/ QueryToolMetrics(None)

SpecRows == Init /\ [][NextRows]_vars

(***************************************************************************)
(* The terminal UI over the engine: tool calls are recorded while the user *)
(* presses keys and the screen refreshes                                   *)
(***************************************************************************)
MaxTuiRows == 2

\* the instants of the clock: two hours apart, so that the calls of the first
\* are older than an hour at the second
TuiTimes == {0, 2}

TuiTools == {"Bash", "Read"}

\* an api_request of a Claude model
TuiLogEvents ==
    {[event_name |-> Some("api_request"), body |-> None,
      attributes |-> [model |-> "claude-Opus-4"]]}

TuiTick ==
    /\ \E t \in TuiTimes : t > now /\ now' = t
    /\ UNCHANGED <<conn, actorVars, http, result, files, app>>

TuiRecordTool(tool_name) ==
    /\ Len(conn.tool_events) + Len(conn.log_events) < MaxTuiRows
    /\ conn' = record_tool_event(conn,
                    [timestamp |-> now, tool_name |-> tool_name, success |-> TRUE,
                     duration_ms |-> 7, error |-> None])
    /\ UNCHANGED <<now, actorVars, http, result, files, app>>

TuiRecordLog(event) ==
    /\ Len(conn.tool_events) + Len(conn.log_events) < MaxTuiRows
    /\ conn' = insert_log_events(conn,
                    <<[timestamp |-> now, event_name |-> event.event_name,
                       body |-> event.body, attributes |-> event.attributes]>>)
    /\ UNCHANGED <<now, actorVars, http, result, files, app>>

Refresh ==
    /\ \E a \in refresh(app, conn, now) : app' = a
    /\ UNCHANGED <<conn, now, actorVars, http, result, files>>

SelectNext ==
    /\ app' = select_next(app)
    /\ UNCHANGED <<conn, now, actorVars, http, result, files>>

SelectPrevious ==
    /\ app' = select_previous(app)
    /\ UNCHANGED <<conn, now, actorVars, http, result, files>>

ToggleSort ==
    /\ app' = toggle_sort(app)
    /\ UNCHANGED <<conn, now, actorVars, http, result, files>>

ToggleTimeFilter ==
    /\ app' = toggle_time_filter(app)
    /\ UNCHANGED <<conn, now, actorVars, http, result, files>>

TogglePause ==
    /\ app' = toggle_pause(app)
    /\ UNCHANGED <<conn, now, actorVars, http, result, files>>

ResetStats ==
    /\ app' = reset_stats(app)
    /\ UNCHANGED <<conn, now, actorVars, http, result, files>>

NextTui ==
    \/ TuiTick
    \/ \E tool_name \in TuiTools : TuiRecordTool(tool_name)
    \/ \E event \in TuiLogEvents : TuiRecordLog(event)
    \/ Refresh
    \/ SelectNext
    \/ SelectPrevious
    \/ ToggleSort
    \/ ToggleTimeFilter
    \/ TogglePause
    \/ ResetStats

SpecTui == Init /\ [][NextTui]_vars

(***************************************************************************)
(* The handles and the actor                                               *)
(***************************************************************************)
MaxCommands == 3

AToolEvent ==
    [timestamp |-> 0, tool_name |-> "Read", success |-> TRUE, duration_ms |-> 7,
     error |-> None]
ALogEvent ==
    [timestamp |-> 0, event_name |-> Some("tool_result"), body |-> None,
     attributes |-> [tool_name |-> "Bash", success |-> "true", duration_ms |-> "5"]]

handle_record_tool_event(c, event) == record(c, "RecordToolEvent", event)
handle_record_log_events(c, events) == record(c, "RecordLogEvents", events)
handle_record_token_usage(c, token_type, count) ==
    record(c, "RecordTokenUsage", [token_type |-> token_type, count |-> count])
handle_record_cost(c, cost_usd) == record(c, "RecordCost", cost_usd)
handle_record_session_metric(c, name, value) ==
    record(c, "RecordSessionMetric", [name |-> name, value |-> value])
handle_get_tool_metrics(c, since) == get(c, "GetToolMetrics", since)
handle_get_token_metrics(c, since) == get(c, "GetTokenMetrics", since)
handle_get_last_tool_error(c, tool_name) == get(c, "GetLastToolError", tool_name)
handle_get_session_metrics(c, since) == get(c, "GetSessionMetrics", since)
handle_get_api_metrics(c, since) == get(c, "GetApiMetrics", since)
\* a holder of the sender puts StorageCommand::Shutdown on the channel
SendShutdown(c) == record(c, "Shutdown", None)

\* c1 records tool events and token usage, reads the token metrics and may
\* send Shutdown; c2 records log events, cost and session metrics and reads
\* the tool metrics
HandleNext ==
    \/ Len(history) < MaxCommands /\ handle_record_tool_event("c1", AToolEvent)
    \/ Len(history) < MaxCommands /\ handle_record_token_usage("c1", "input", 2)
    \/ Len(history) < MaxCommands /\ handle_get_token_metrics("c1", None)
    \/ Len(history) < MaxCommands /\ SendShutdown("c1")
    \/ Len(history) < MaxCommands /\ handle_record_log_events("c2", <<ALogEvent>>)
    \/ Len(history) < MaxCommands /\ handle_record_cost("c2", 3)
    \/ Len(history) < MaxCommands /\ handle_record_session_metric("c2", "lines_of_code", 1)
    \/ Len(history) < MaxCommands /\ handle_get_tool_metrics("c2", None)

ActorNext ==
    \/ ActorWrite
    \/ ActorRead
    \/ ActorShutdown
    \/ ActorDisconnected
    \/ ActorDropReceiver

Next ==
    \/ HandleNext
    \/ \E c \in Callers : DropHandle(c)
    \/ ActorNext

Spec == Init /\ [][Next]_vars

(***************************************************************************)
(* The actor while the handles are dropped. No holder of a handle can send *)
(* Shutdown (StorageHandle has no method for it), so none is sent here.    *)
(* The actor is a thread of its own: whenever it can take a step, it       *)
(* eventually does.                                                        *)
(***************************************************************************)
ActorRun ==
    \/ ActorWrite
    \/ ActorRead
    \/ ActorDisconnected
    \/ ActorDropReceiver

NextDrain ==
    \/ Len(history) < MaxCommands /\ handle_record_tool_event("c1", AToolEvent)
    \/ Len(history) < MaxCommands /\ handle_record_token_usage("c1", "input", 2)
    \/ Len(history) < MaxCommands /\ handle_record_log_events("c2", <<ALogEvent>>)
    \/ Len(history) < MaxCommands /\ handle_get_token_metrics("c2", None)
    \/ \E c \in Callers : DropHandle(c)
    \/ ActorRun

SpecDrain == Init /\ [][NextDrain]_vars /\ WF_vars(ActorRun)

(***************************************************************************)
(* The receiver with the actor behind it                                   *)
(***************************************************************************)
MaxRequests == 2

StringValue(s) == Some([value |-> Some([kind |-> "StringValue", v |-> s])])
ProtoLogRecord(t, attributes) ==
    [time_unix_nano |-> t, body |-> None, attributes |-> attributes]
ProtoLogs(scopes) ==
    [protobuf |-> Some([resource_logs |-> <<[scope_logs |-> scopes]>>]), json |-> None]

JsonString(s) ==
    [string_value |-> Some(s), int_value |-> None, double_value |-> None,
     bool_value |-> None]
JsonNumber(n) == Some([kind |-> "Number", n |-> n])
JsonLogRecord(t, attributes) ==
    [time_unix_nano |-> t, body |-> None, attributes |-> attributes]
JsonLogs(scopes) ==
    [protobuf |-> None, json |-> Some([resource_logs |-> <<[scope_logs |-> scopes]>>])]

\* bytes neither decoder accepts, and a JSON document of another shape
Garbage == [protobuf |-> None, json |-> None]
OtherJson == [protobuf |-> None, json |-> Some([foo |-> 1])]
\* no bytes: prost decodes the default message
EmptyLogs == [protobuf |-> Some([resource_logs |-> <<>>]), json |-> None]
EmptyMetrics == [protobuf |-> Some([resource_metrics |-> <<>>]), json |-> None]

ProtoToolResult ==
    ProtoLogRecord(2, <<[key |-> "event.name", value |-> StringValue("tool_result")],
                        [key |-> "tool_name", value |-> StringValue("Bash")]>>)
ProtoApiRequest ==
    ProtoLogRecord(0, <<[key |-> "event.name", value |-> StringValue("api_request")]>>)
ProtoBare == ProtoLogRecord(1, <<>>)
JsonToolResult ==
    JsonLogRecord(JsonNumber(2), <<[key |-> "event.name", value |-> JsonString("tool_result")],
                                   [key |-> "tool_name", value |-> JsonString("Bash")]>>)
JsonApiRequest ==
    JsonLogRecord(Some([kind |-> "String", s |-> "1"]),
                  <<[key |-> "event.name", value |-> JsonString("api_request")]>>)
JsonBadTime == JsonLogRecord(Some([kind |-> "String", s |-> "soon"]), <<>>)
\* timeUnixNano written as 0, written as "0", and left out
JsonZeroTime == JsonLogRecord(JsonNumber(0), <<>>)
JsonZeroTimeString == JsonLogRecord(Some([kind |-> "String", s |-> "0"]), <<>>)
JsonNoTime == JsonLogRecord(None, <<>>)

LogBodies ==
    <<EmptyLogs, Garbage, OtherJson,
      ProtoLogs(<<[log_records |-> <<ProtoToolResult>>]>>),
      ProtoLogs(<<[log_records |-> <<ProtoApiRequest, ProtoToolResult>>]>>),
      ProtoLogs(<<[log_records |-> <<ProtoToolResult>>],
                  [log_records |-> <<ProtoBare, ProtoApiRequest>>]>>),
      JsonLogs(<<[log_records |-> <<JsonToolResult>>]>>),
      JsonLogs(<<[log_records |-> <<JsonApiRequest, JsonToolResult>>]>>),
      JsonLogs(<<[log_records |-> <<JsonToolResult, JsonBadTime>>]>>),
      JsonLogs(<<[log_records |-> <<JsonToolResult, JsonNoTime>>]>>),
      JsonLogs(<<[log_records |-> <<JsonZeroTime, JsonZeroTimeString>>]>>)>>

\* one metric with one data point of the sum, typed "input" and worth 5, or
\* 2.5 when the metric is a cost
IsCost(name) == EndsWith(name, ".cost.usage")
ProtoMetrics(name) ==
    [protobuf |-> Some([resource_metrics |-> <<[scope_metrics |-> <<[metrics |->
        <<[name |-> name,
           data |-> Some([kind |-> "Sum", data_points |->
              <<[value |-> Some(IF IsCost(name) THEN [kind |-> "AsDouble", v |-> 25]
                                ELSE [kind |-> "AsInt", v |-> 5]),
                 attributes |-> <<[key |-> "type", value |-> StringValue("input")]>>]>>])
          ]>>]>>]>>]),
     json |-> None]
JsonMetrics(name) ==
    [protobuf |-> None,
     json |-> Some([resource_metrics |-> <<[scope_metrics |-> <<[metrics |->
        <<[name |-> name, gauge |-> None,
           sum |-> Some([data_points |->
              <<[as_int |-> IF IsCost(name) THEN None ELSE JsonNumber(5),
                 as_double |-> IF IsCost(name) THEN Some(25) ELSE None,
                 attributes |-> <<[key |-> "type", value |-> JsonString("input")]>>]>>])
          ]>>]>>]>>])]

\* the prefixes the registered providers declare as metric_prefix
ProviderPrefixes == <<"claude_code", "codex", "gemini_cli", "qwen-code">>

MetricNames ==
    <<"claude_code.token.usage", "gemini_cli.token.usage", "claude_code.cost.usage",
      "codex.cost.usage", "qwen-code.commit.count", "claude_code.session.count",
      "system.cpu.usage">>

MetricBodies ==
    <<EmptyMetrics, Garbage>>
        \o [i \in 1..Len(MetricNames) |-> ProtoMetrics(MetricNames[i])]
        \o [i \in 1..Len(MetricNames) |-> JsonMetrics(MetricNames[i])]

Reader == "c1"

NextReceiver ==
    \/ Tick
    \/ \E i \in 1..Len(LogBodies) :
          Len(http) < MaxRequests /\ handle_logs(LogBodies[i])
    \/ \E i \in 1..Len(MetricBodies) :
          Len(http) < MaxRequests /\ handle_metrics(MetricBodies[i])
    \/ Len(http) < MaxRequests /\ handle_traces(Garbage)
    \/ ActorWrite

SpecReceiver == Init /\ [][NextReceiver]_vars

(***************************************************************************)
(* Session metrics from the receiver to the reader                         *)
(***************************************************************************)
\* the metrics the codec emits as session metrics in both encodings
SessionMetricBodies ==
    LET names == <<"claude_code.lines_of_code.count", "claude_code.commit.count",
                   "claude_code.active_time.total">>
    IN  [i \in 1..Len(names) |-> ProtoMetrics(names[i])]
        \o [i \in 1..Len(names) |-> JsonMetrics(names[i])]

NextSessionFlow ==
    \/ \E i \in 1..Len(SessionMetricBodies) :
          Len(http) < MaxRequests /\ handle_metrics(SessionMetricBodies[i])
    \/ Len(history) < MaxCommands /\ handle_get_session_metrics(Reader, None)
    \/ ActorWrite
    \/ ActorRead

SpecSessionFlow == Init /\ [][NextSessionFlow]_vars

(***************************************************************************)
(* The actor over an engine whose writes may fail                          *)
(***************************************************************************)
NextFault ==
    \/ /\ Len(http) < MaxRequests /\ Len(history) < MaxCommands
       /\ handle_logs(LogBodies[5])
    \/ /\ Len(http) < MaxRequests /\ Len(history) < MaxCommands
       /\ handle_metrics(MetricBodies[3])
    \/ Len(history) < MaxCommands /\ handle_record_tool_event(Reader, AToolEvent)
    \/ Len(history) < MaxCommands /\ handle_get_tool_metrics(Reader, None)
    \/ Len(history) < MaxCommands /\ handle_get_token_metrics(Reader, None)
    \/ \E c \in Callers : DropHandle(c)
    \/ ActorWrite
    \/ ActorWriteFails
    \/ ActorRead
    \/ ActorDisconnected
    \/ ActorDropReceiver

SpecFault == Init /\ [][NextFault]_vars

(***************************************************************************)
(* The actor: the claims                                                   *)
(***************************************************************************)
Returned(c) == IsSome(lastCall[c])
Call(c) == Unwrap(lastCall[c])
ProcessedIds == {processed[k].id : k \in 1..Len(processed)}

\* the database after the writes among the first k commands of history, each
\* stamped with the instant the actor dequeued it
RECURSIVE Replay(_)
Replay(k) ==
    IF k = 0 THEN init_schema
    ELSE IF history[k].kind \in WriteKinds
         THEN apply_write(Replay(k - 1), history[k], processed[k].at)
         ELSE Replay(k - 1)

\* C1: the actor applies the commands one at a time in the order the channel
\* accepted them (so each caller's commands in that caller's order), every
\* write exactly once, and the reply to a read is the engine's answer over
\* exactly the writes accepted before it.
C1_ActorSerializes ==
    /\ \A i \in 1..Len(history) : history[i].id = i
    /\ Len(processed) <= Len(history)
    /\ \A k \in 1..Len(processed) : processed[k].id = k
    /\ conn = Replay(Len(processed))
    /\ \A c \in Callers :
          (Returned(c) /\ Call(c).returns = "Ok") =>
              /\ Call(c).id \in ProcessedIds
              /\ Unwrap(Call(c).value) \in
                    read_replies(Replay(Call(c).id - 1), history[Call(c).id])

\* a task's read came back with its own write and the other task's write in it
C1_Witness ==
    /\ Len(history) = 3
    /\ history[1].kind = "RecordTokenUsage" /\ history[1].caller = "c1"
    /\ history[2].kind = "RecordCost" /\ history[2].caller = "c2"
    /\ history[3].kind = "GetTokenMetrics" /\ history[3].caller = "c1"
    /\ Returned("c1") /\ Call("c1").returns = "Ok"
    /\ Unwrap(Call("c1").value).input_tokens = 2
    /\ Unwrap(Call("c1").value).total_cost_usd = 3

\* the state part of C2: what a call made with the receiver gone returned,
\* and that a stopped actor leaves no queue and no caller waiting
C2_CallsOnStoppedActor ==
    /\ \A c \in Callers :
          (Returned(c) /\ ~Call(c).alive) =>
              /\ Call(c).id = 0
              /\ Call(c).kind \in ReadKinds => Call(c).returns = "Err"
              /\ Call(c).kind \notin ReadKinds => Call(c).returns = "unit"
    /\ actor = "stopped" =>
          /\ queue = <<>>
          /\ \A c \in Callers :
                /\ waiting[c] = None
                /\ (Returned(c) /\ Call(c).kind \in ReadKinds
                      /\ Call(c).id \notin ProcessedIds) => Call(c).returns = "Err"

\* the step part of C2: no step of a stopped actor's system changes the
\* database, the queue or what the channel accepted
C2_StoppedActorIsInert ==
    actor = "stopped" =>
        /\ conn' = conn
        /\ queue' = queue
        /\ history' = history
        /\ processed' = processed
        /\ \A c \in Callers : waiting'[c] = None

\* C2: once the actor has stopped, a record_* call returns unit and changes
\* nothing, a get_* call returns Err, and a read that was queued but not
\* processed has returned Err to its caller: nobody is left waiting.
C2_StoppedActor == []C2_CallsOnStoppedActor /\ [][C2_StoppedActorIsInert]_vars

\* the actor stopped with c2's read still queued, which returned Err, and c1
\* then called record_* on the closed channel
C2_Witness ==
    /\ actor = "stopped"
    /\ Returned("c2") /\ Call("c2").kind = "GetToolMetrics"
    /\ Call("c2").id = 2 /\ Call("c2").returns = "Err"
    /\ Returned("c1") /\ Call("c1").kind = "RecordToolEvent"
    /\ ~Call("c1").alive /\ Call("c1").returns = "unit"
    /\ Len(history) = 2
    /\ conn = init_schema

\* C3: when the actor has stopped on Shutdown, every command that was queued
\* behind the Shutdown when it was dequeued has been processed.
C3_ShutdownDrains ==
    (actor = "stopped" /\ stopCause = Some("shutdown")) =>
        \A k \in 1..Len(processed) :
            history[processed[k].id].kind = "Shutdown" =>
                \A i \in (processed[k].id + 1)..(processed[k].id + processed[k].behind) :
                    i \in ProcessedIds

\* C4: a write the engine rejects is only logged: the actor goes on with the
\* commands behind it in order and stops for no other reason than a Shutdown
\* or the last handle being dropped; no record_* call and no HTTP request
\* gets an error for it, the request having answered 200 at enqueue.
C4_WriteFailureIsOnlyLogged ==
    /\ \A k \in 1..Len(processed) : processed[k].id = k
    /\ \A e \in 1..Len(errlog) :
          errlog[e] \in ProcessedIds /\ history[errlog[e]].kind \in WriteKinds
    /\ stopCause \in {None, Some("shutdown"), Some("disconnected")}
    /\ actor = "stopped" => \A i \in 1..Len(history) : i \in ProcessedIds
    /\ \A c \in Callers :
          (Returned(c) /\ Call(c).kind \notin ReadKinds) => Call(c).returns = "unit"
    /\ \A k \in 1..Len(http) : http[k].status = 200

\* the batch of a request answered 200 failed in the engine, and the read
\* queued behind it was answered
C4_Witness ==
    /\ Len(http) = 1 /\ http[1].route = "/v1/logs"
    /\ http[1].status = 200 /\ http[1].sent = <<1>>
    /\ errlog = <<1>>
    /\ Len(conn.log_events) = 1
    /\ actor = "running"
    /\ Returned(Reader) /\ Call(Reader).kind = "GetToolMetrics"
    /\ Call(Reader).id = 2 /\ Call(Reader).returns = "Ok"
    /\ Call(Reader).value = Some(<<>>)

(***************************************************************************)
(* The receiver: the claims                                                *)
(***************************************************************************)
\* the log records a body carries, in request order: those of the protobuf
\* message, else those of the JSON document serde accepts, else none
RequestRecords(body) ==
    LET request == IF IsSome(body.protobuf) THEN Unwrap(body.protobuf)
                   ELSE IF deserialize_OtlpLogsRequest(body.json).ok
                        THEN Unwrap(body.json)
                        ELSE [resource_logs |-> <<>>]
    IN  Flatten([r \in 1..Len(request.resource_logs) |->
           Flatten([sc \in 1..Len(request.resource_logs[r].scope_logs) |->
              request.resource_logs[r].scope_logs[sc].log_records])])

AttributeKeys(rec) == {rec.attributes[i].key : i \in 1..Len(rec.attributes)}

\* C5: every POST to /v1/logs is answered 200 and puts exactly one
\* RecordLogEvents on the channel, whose batch has one event per record of the
\* body, in the body's order, whatever the record's event name; a body that
\* decodes as nothing gives the empty batch.
C5_LogsAlwaysEnqueueWholeBatch ==
    /\ \A k \in 1..Len(http) :
          http[k].route = "/v1/logs" =>
              /\ http[k].status = 200
              /\ Len(http[k].sent) = 1
              /\ LET cmd == history[http[k].sent[1]]
                     recs == RequestRecords(http[k].body)
                 IN  /\ cmd.kind = "RecordLogEvents"
                     /\ cmd.caller = Server
                     /\ Len(cmd.arg) = Len(recs)
                     /\ \A j \in 1..Len(recs) :
                           /\ DOMAIN cmd.arg[j].attributes = AttributeKeys(recs[j])
                           /\ cmd.arg[j].event_name =
                                 json_extract_string(cmd.arg[j].attributes, "event.name")
    /\ Cardinality({i \in 1..Len(history) : history[i].kind = "RecordLogEvents"})
          = Cardinality({k \in 1..Len(http) : http[k].route = "/v1/logs"})

\* garbage was answered 200 with an empty batch, and a protobuf body of an
\* api_request and a tool_result gave a batch of the two in that order
C5_Witness ==
    /\ Len(http) = 2
    /\ http[1].route = "/v1/logs" /\ http[1].body = Garbage
    /\ http[1].status = 200 /\ history[http[1].sent[1]].arg = <<>>
    /\ http[2].route = "/v1/logs" /\ http[2].body = LogBodies[5]
    /\ http[2].status = 200
    /\ Len(history[http[2].sent[1]].arg) = 2
    /\ history[http[2].sent[1]].arg[1].event_name = Some("api_request")
    /\ history[http[2].sent[1]].arg[2].event_name = Some("tool_result")

\* the name of the one metric of a body of MetricBodies, if it has one
MetricNameOf(body) ==
    IF IsSome(body.protobuf)
    THEN IF Len(Unwrap(body.protobuf).resource_metrics) = 0 THEN None
         ELSE Some(Unwrap(body.protobuf).resource_metrics[1].scope_metrics[1].metrics[1].name)
    ELSE IF IsSome(body.json)
         THEN Some(Unwrap(body.json).resource_metrics[1].scope_metrics[1].metrics[1].name)
         ELSE None

HasProviderPrefix(name) ==
    \E p \in 1..Len(ProviderPrefixes) : StartsWith(name, ProviderPrefixes[p] \o ".")

\* C6: for every registered prefix p and in both encodings, the data point of
\* p.token.usage is recorded as token usage, that of p.cost.usage as cost, that
\* of any other p.* name as a session metric, and a data point is dropped iff
\* its metric's name has no registered prefix.
C6_EveryProviderPrefixProjects ==
    \A k \in 1..Len(http) :
        (http[k].route = "/v1/metrics" /\ IsSome(MetricNameOf(http[k].body))) =>
            LET name == Unwrap(MetricNameOf(http[k].body))
                kinds == [i \in 1..Len(http[k].sent) |-> history[http[k].sent[i]].kind]
            IN  IF ~HasProviderPrefix(name) THEN kinds = <<>>
                ELSE IF EndsWith(name, ".token.usage") THEN kinds = <<"RecordTokenUsage">>
                ELSE IF EndsWith(name, ".cost.usage") THEN kinds = <<"RecordCost">>
                ELSE kinds = <<"RecordSessionMetric">>

(***************************************************************************)
(* Token metrics: the claims                                               *)
(***************************************************************************)
\* the last engine query, when it was op
Asked(op) == IsSome(result) /\ Unwrap(result).op = op

\* the sum of count over the token_usage rows stamped at or after since
\* (every row when since is None) whose token_type is in spellings
CountOfSpellings(since, spellings) ==
    LET rows == conn.token_usage
        hit == {i \in 1..Len(rows) :
                   /\ since = None \/ rows[i].timestamp >= Unwrap(since)
                   /\ rows[i].token_type \in spellings}
    IN  SumOver([i \in hit |-> rows[i].count], hit)

\* the TokenMetrics field of a canonical token tag
FieldOfTag(c) ==
    CASE c = "input" -> "input_tokens"
      [] c = "output" -> "output_tokens"
      [] c = "cache_read" -> "cache_read_tokens"
      [] c = "cache_write" -> "cache_creation_tokens"

\* the database without the token_usage rows of one token_type
WithoutTokenType(db, raw) ==
    LET rows == db.token_usage
    IN  [db EXCEPT !.token_usage =
            SelectSeq(rows, LAMBDA r : r.token_type # raw)]

\* C7: whenever a provider normalises a raw token type to c, c is one of the
\* four canonical tags and get_token_metrics adds the counts recorded under
\* that raw type to the TokenMetrics field of c: the field is larger, by the
\* sum of those counts, than it is over the database without those rows.
C7_NormalizedTypesAreBucketed ==
    Asked("get_token_metrics") =>
        LET q == Unwrap(result)
        IN  \A i \in 1..Len(providers), raw \in RawTokenTypes :
                LET c == normalize_token_type(providers[i], raw)
                IN  IsSome(c) =>
                      /\ Unwrap(c) \in {"input", "output", "cache_read", "cache_write"}
                      /\ q.value[FieldOfTag(Unwrap(c))]
                           - get_token_metrics(WithoutTokenType(conn, raw),
                                               q.since)[FieldOfTag(Unwrap(c))]
                         = CountOfSpellings(q.since, {raw})

\* C8: each of the four token fields of get_token_metrics(since) is the sum of
\* count over the rows stamped at or after since whose token_type is one of
\* the field's spellings; rows of any other type add to no field; and
\* total_cost_usd is the sum of the cost rows stamped at or after since, 0
\* when there are none.
C8_TokenFieldsAreSpellingSums ==
    Asked("get_token_metrics") =>
        LET q == Unwrap(result)
            costs == conn.cost_usage
            chit == {i \in 1..Len(costs) :
                        q.since = None \/ costs[i].timestamp >= Unwrap(q.since)}
        IN  /\ q.value.input_tokens =
                 CountOfSpellings(q.since, {"input", "prompt_tokens", "input_tokens"})
            /\ q.value.output_tokens =
                 CountOfSpellings(q.since,
                                  {"output", "completion_tokens", "output_tokens"})
            /\ q.value.cache_read_tokens =
                 CountOfSpellings(q.since, {"cacheRead", "cache_read", "cache_hit"})
            /\ q.value.cache_creation_tokens =
                 CountOfSpellings(q.since,
                                  {"cacheCreation", "cache_creation", "cache_write"})
            /\ q.value.total_cost_usd = SumOver([i \in chit |-> costs[i].cost_usd], chit)
            /\ (chit = {} => q.value.total_cost_usd = 0)

\* C8's case: a windowed query over a row before the window and a row of
\* another spelling of the same field inside it, which alone is counted
C8_Witness ==
    /\ Asked("get_token_metrics")
    /\ Unwrap(result).since = Some(1)
    /\ Len(conn.token_usage) = 2
    /\ conn.token_usage[1] = [timestamp |-> 0, token_type |-> "input", count |-> 2]
    /\ conn.token_usage[2].timestamp = 1
    /\ conn.token_usage[2].token_type = "prompt_tokens"
    /\ Unwrap(result).value.input_tokens = 2

(***************************************************************************)
(* Tool metrics: the claims                                                *)
(***************************************************************************)
\* the database without the i-th log event
WithoutLogEvent(db, i) ==
    [db EXCEPT !.log_events = SubSeq(@, 1, i - 1) \o SubSeq(@, i + 1, Len(@))]

\* C9: a stored log event contributes to get_tool_metrics (the result differs
\* from the one over the database without the event) iff its event_name is
\* present and ends with 'tool_result'; here for the all-time query.
C9_ContributesIffSuffix ==
    (Asked("get_tool_metrics") /\ Unwrap(result).since = None) =>
        \A i \in 1..Len(conn.log_events) :
            LET e == conn.log_events[i]
            IN  (Range(Unwrap(result).value)
                    # tool_metrics_groups(WithoutLogEvent(conn, i), None))
                <=> (IsSome(e.event_name) /\ EndsWith(Unwrap(e.event_name), "tool_result"))

\* the number of rows of rows stamped in the half-open window [since, at),
\* of all rows when since is None
InHalfOpenWindow(rows, since, at) ==
    Cardinality({i \in 1..Len(rows) :
                    since = None
                    \/ (Unwrap(since) <= rows[i].timestamp /\ rows[i].timestamp < at)})

\* C10: a time-filtered query called with since = s at the instant at
\* aggregates exactly the rows stamped t with s <= t < at, and every row when
\* since is None; here get_tool_metrics, whose call_counts add up to the number
\* of aggregated rows (the legacy rows and the log events the LIKE selects).
C10_HalfOpenWindow ==
    Asked("get_tool_metrics") =>
        LET q == Unwrap(result)
            logs == SelectSeq(conn.log_events,
                              LAMBDA r : log_event_selected(r, "%tool_result", None))
        IN  SumOver([i \in DOMAIN q.value |-> q.value[i].call_count], DOMAIN q.value)
              = InHalfOpenWindow(conn.tool_events, q.since, q.at)
                + InHalfOpenWindow(logs, q.since, q.at)

(***************************************************************************)
(* Tool calls: the claims                                                  *)
(***************************************************************************)
\* the name a log event counts under: its tool_name attribute, else 'unknown'
CountsUnder(row) ==
    IF "tool_name" \in DOMAIN row.attributes THEN row.attributes["tool_name"]
    ELSE "unknown"

\* the log events the query takes for tool results
ToolResults(db) ==
    {i \in 1..Len(db.log_events) :
        /\ IsSome(db.log_events[i].event_name)
        /\ Like(Unwrap(db.log_events[i].event_name), "%tool_result")}

InWindow(since, timestamp) == since = None \/ Unwrap(since) <= timestamp

\* the in-window legacy rows and the in-window tool_result events of a name
LegacyNamed(db, since, name) ==
    {i \in 1..Len(db.tool_events) :
        /\ db.tool_events[i].tool_name = name
        /\ InWindow(since, db.tool_events[i].timestamp)}
LogsNamed(db, since, name) ==
    {i \in ToolResults(db) :
        /\ CountsUnder(db.log_events[i]) = name
        /\ InWindow(since, db.log_events[i].timestamp)}

NamesFound(db, since) ==
    {n \in {db.tool_events[i].tool_name : i \in 1..Len(db.tool_events)}
            \cup {CountsUnder(db.log_events[i]) : i \in 1..Len(db.log_events)} :
        LegacyNamed(db, since, n) \cup LogsNamed(db, since, n) # {}}

\* C11: get_tool_metrics returns exactly one row per distinct tool name found
\* among the in-window legacy rows and the in-window tool_result log events;
\* the row's call_count is the number of those legacy rows plus the number of
\* those events of that name (an event without tool_name under 'unknown'),
\* and the rows come in non-increasing call_count order.
C11_OneRowPerToolName ==
    Asked("get_tool_metrics") =>
        LET q == Unwrap(result)
            rows == q.value
        IN  /\ {rows[i].tool_name : i \in DOMAIN rows} = NamesFound(conn, q.since)
            /\ \A i, j \in DOMAIN rows :
                  rows[i].tool_name = rows[j].tool_name => i = j
            /\ \A i \in DOMAIN rows :
                  rows[i].call_count
                    = Cardinality(LegacyNamed(conn, q.since, rows[i].tool_name))
                      + Cardinality(LogsNamed(conn, q.since, rows[i].tool_name))
            /\ \A i, j \in DOMAIN rows :
                  i < j => rows[i].call_count >= rows[j].call_count

\* a legacy row and a tool_result event of Bash add up to a call_count of 2,
\* ahead of the row 'unknown' of an event without tool_name
C11_Witness ==
    /\ Asked("get_tool_metrics")
    /\ Unwrap(result).since = Some(1)
    /\ Len(conn.tool_events) = 1 /\ Len(conn.log_events) = 2
    /\ Len(Unwrap(result).value) = 2
    /\ Unwrap(result).value[1].tool_name = "Bash"
    /\ Unwrap(result).value[1].call_count = 2
    /\ Unwrap(result).value[2].tool_name = "unknown"
    /\ Unwrap(result).value[2].call_count = 1

\* the non-success events of a tool, as get_tool_metrics judges success: the
\* legacy rows with success = false, and the tool_result events whose success
\* attribute is neither 'true' nor '1' or is missing; each with its instant
\* and its error text, if any
Failures(db, tool_name) ==
    {[timestamp |-> r.timestamp, error |-> r.error]
        : r \in {x \in Range(db.tool_events) :
                    x.tool_name = tool_name /\ ~legacy_projection(x).success}}
    \cup
    {[timestamp |-> db.log_events[i].timestamp,
      error |-> json_extract_string(db.log_events[i].attributes, "error")]
        : i \in {k \in ToolResults(db) :
                    /\ CountsUnder(db.log_events[k]) = tool_name
                    /\ ~log_projection(db.log_events[k]).success}}

\* C12: get_last_tool_error(tool) returns the error text of the most recent
\* (greatest timestamp) non-success event of that tool over the union of the
\* legacy rows and the tool_result log events, a missing success attribute
\* being a non-success; it returns None when the tool has no such event.
C12_LastErrorOfMostRecentFailure ==
    Asked("get_last_tool_error") =>
        LET q == Unwrap(result)
            f == Failures(conn, q.tool_name)
        IN  IF f = {} THEN q.value = None
            ELSE \E x \in f :
                    /\ \A y \in f : y.timestamp <= x.timestamp
                    /\ q.value = x.error

(***************************************************************************)
(* Session metrics: the claims                                             *)
(***************************************************************************)
\* the sum of value over the session_metrics rows stamped at or after since
\* (every row when since is None) whose name is in names
ValueOfNames(since, names) ==
    LET rows == conn.session_metrics
        S == {i \in 1..Len(rows) :
                 rows[i].metric_name \in names /\ InWindow(since, rows[i].timestamp)}
    IN  SumOver([i \in S |-> rows[i].value], S)

\* C13: get_session_metrics(since) returns lines_of_code as the sum of value
\* over the in-window rows named 'lines_of_code' or 'loc', commit_count as the
\* sum over those named 'commits' or 'commit_count', and active_time_secs as
\* the sum over those named 'active_time', whatever the order of the groups;
\* rows of another name change no field.
C13_SessionFieldsAreSums ==
    Asked("get_session_metrics") =>
        LET q == Unwrap(result)
        IN  /\ q.value.lines_of_code = ValueOfNames(q.since, {"lines_of_code", "loc"})
            /\ q.value.commit_count = ValueOfNames(q.since, {"commits", "commit_count"})
            /\ q.value.active_time_secs = ValueOfNames(q.since, {"active_time"})

(***************************************************************************)
(* API metrics: the claims                                                 *)
(***************************************************************************)
\* the in-window log events whose event_name ends with suffix
EventsEnding(since, suffix) ==
    {i \in 1..Len(conn.log_events) :
        /\ IsSome(conn.log_events[i].event_name)
        /\ EndsWith(Unwrap(conn.log_events[i].event_name), suffix)
        /\ InWindow(since, conn.log_events[i].timestamp)}

\* latency_ms, else duration_ms, else 0
LatencyOf(row) ==
    IF "latency_ms" \in DOMAIN row.attributes
    THEN cast_bigint(row.attributes["latency_ms"])
    ELSE IF "duration_ms" \in DOMAIN row.attributes
    THEN cast_bigint(row.attributes["duration_ms"])
    ELSE 0

\* C15: get_api_metrics(since) returns total_calls as the number of in-window
\* log events whose event_name ends with 'api_request', total_errors as the
\* number whose event_name ends with 'api_error', models as the map from each
\* model attribute value to the number of api_request events carrying it, and
\* avg_latency_ms as the plain mean of latency_ms (else duration_ms, else 0)
\* over all api_request events, 0 when there is none.
C15_ApiMetricsAreSuffixAggregates ==
    Asked("get_api_metrics") =>
        LET q == Unwrap(result)
            requests == EventsEnding(q.since, "api_request")
            rows == conn.log_events
            carrying(m) == {i \in requests :
                               /\ "model" \in DOMAIN rows[i].attributes
                               /\ rows[i].attributes["model"] = m}
            sum == SumOver([i \in requests |-> LatencyOf(rows[i])], requests)
        IN  /\ q.value.total_calls = Cardinality(requests)
            /\ q.value.total_errors = Cardinality(EventsEnding(q.since, "api_error"))
            /\ DOMAIN q.value.models
                  = {rows[i].attributes["model"] :
                        i \in {k \in requests : "model" \in DOMAIN rows[k].attributes}}
            /\ \A m \in DOMAIN q.value.models :
                  q.value.models[m] = Cardinality(carrying(m))
            /\ IF requests = {}
               THEN q.value.avg_latency_ms.num = 0
               ELSE q.value.avg_latency_ms.num * Cardinality(requests)
                      = sum * q.value.avg_latency_ms.den

\* the sum of the data points of the metric name in the requests to
\* /v1/metrics whose commands the channel accepted before command id
PostedBefore(id, name) ==
    LET S == {k \in 1..Len(http) :
                 /\ http[k].route = "/v1/metrics"
                 /\ MetricNameOf(http[k].body) = Some(name)
                 /\ \A j \in 1..Len(http[k].sent) : http[k].sent[j] < id}
    IN  5 * Cardinality(S)

\* C14: a get_session_metrics(None) of the reader reflects every session
\* metric posted to /v1/metrics before it: the data points of
\* claude_code.lines_of_code.count in lines_of_code, those of
\* claude_code.commit.count in commit_count and those of
\* claude_code.active_time.total in active_time_secs.
C14_PostedSessionMetricsReachFields ==
    (Returned(Reader) /\ Call(Reader).kind = "GetSessionMetrics"
        /\ Call(Reader).returns = "Ok") =>
        LET v == Unwrap(Call(Reader).value)
            id == Call(Reader).id
        IN  /\ v.lines_of_code = PostedBefore(id, "claude_code.lines_of_code.count")
            /\ v.commit_count = PostedBefore(id, "claude_code.commit.count")
            /\ v.active_time_secs = PostedBefore(id, "claude_code.active_time.total")

(***************************************************************************)
(* ensure_configured: the claims                                           *)
(***************************************************************************)
\* the last call, its provider's settings file and backup before and after
Configured == Asked("ensure_configured")
TheCall == Unwrap(result)
SettingsFile == settings_path(TheCall.provider)
BackupFile == backup_path(SettingsFile)
ReturnedOk == TheCall.returned \in {"Ok(true)", "Ok(false)"}

\* the document of a file that holds valid JSON
IsDocument(file) == IsSome(file) /\ IsSome(Unwrap(file).json)
DocumentOf(file) == Unwrap(Unwrap(file).json)

\* the member key of the member block of doc, if there is one
InBlock(doc, block, key) ==
    IF IsSome(value_get(doc, block))
    THEN value_get(Unwrap(value_get(doc, block)), key) ELSE None

\* every required key holds its required value
HoldsRequired(provider, doc) ==
    IF provider = "claude_code"
    THEN /\ value_get(doc, "enableTelemetry") = Some(Value_Bool(TRUE))
         /\ InBlock(doc, "env", "CLAUDE_CODE_ENABLE_TELEMETRY") = Some(Value_String("1"))
         /\ InBlock(doc, "env", "OTEL_METRICS_EXPORTER") = Some(Value_String("otlp"))
         /\ InBlock(doc, "env", "OTEL_LOGS_EXPORTER") = Some(Value_String("otlp"))
         /\ InBlock(doc, "env", "OTEL_EXPORTER_OTLP_PROTOCOL")
              = Some(Value_String("http/protobuf"))
         /\ InBlock(doc, "env", "OTEL_EXPORTER_OTLP_ENDPOINT")
              = Some(Value_String("http://localhost:4318"))
    ELSE /\ InBlock(doc, "telemetry", "enabled") = Some(Value_Bool(TRUE))
         /\ InBlock(doc, "telemetry", "target") = Some(Value_String("local"))
         /\ InBlock(doc, "telemetry", "otlpEndpoint")
              = Some(Value_String("http://localhost:4318"))
         /\ InBlock(doc, "telemetry", "otlpProtocol") = Some(Value_String("http"))

\* C16: after ensure_configured() returns Ok(true) or Ok(false), the settings
\* file holds every required key with its required value, and it returns
\* Ok(false) only when the file held them before the call.
C16_OkMeansFullyConfigured ==
    (Configured /\ ReturnedOk) =>
        /\ IsDocument(files[SettingsFile])
        /\ HoldsRequired(TheCall.provider, DocumentOf(files[SettingsFile]))
        /\ TheCall.returned = "Ok(false)" =>
              /\ IsDocument(TheCall.before[SettingsFile])
              /\ HoldsRequired(TheCall.provider,
                               DocumentOf(TheCall.before[SettingsFile]))

\* the keys a provider's call may change: at top level, and in its block
BlockOf(provider) == IF provider = "claude_code" THEN "env" ELSE "telemetry"
MayChangeAtTop(provider) ==
    IF provider = "claude_code" THEN {"enableTelemetry", "env", "telemetry"}
    ELSE {"telemetry"}
MayChangeInBlock(provider) ==
    IF provider = "claude_code" THEN DOMAIN claude_code_required_env
    ELSE {"enabled", "target", "otlpEndpoint", "otlpProtocol"}

\* C17: after ensure_configured() returned Ok on a settings file that held a
\* document, every key outside the required set has its pre-call value, at
\* top level and inside the env block (Claude) or the telemetry block (Gemini,
\* Qwen).
C17_OtherKeysKeepTheirValues ==
    (Configured /\ ReturnedOk /\ IsDocument(TheCall.before[SettingsFile])) =>
        LET provider == TheCall.provider
            pre == DocumentOf(TheCall.before[SettingsFile])
            post == DocumentOf(files[SettingsFile])
            block == BlockOf(provider)
            preBlock == value_get(pre, block)
        IN  /\ \A k \in (DOMAIN pre.o \cup DOMAIN post.o) \ MayChangeAtTop(provider) :
                  value_get(post, k) = value_get(pre, k)
            /\ (IsSome(preBlock) /\ Unwrap(preBlock).t = "Object") =>
                  \A k \in DOMAIN Unwrap(preBlock).o \ MayChangeInBlock(provider) :
                      InBlock(post, block, k) = InBlock(pre, block, k)

\* C18: on a settings file that existed, ensure_configured() copies it to
\* '.bak' iff it rewrites it (both when it returns Ok(true), neither when it
\* returns Ok(false)), the copy comes before the write, the '.bak' then holds
\* exactly the pre-call content, and in every outcome, a failed step included,
\* the settings file differs from its pre-call content only if the '.bak'
\* holds that content.
C18_BackupBeforeOverwrite ==
    (Configured /\ IsSome(TheCall.before[SettingsFile])) =>
        LET ops == TheCall.ops
            wrote(op) == \E i \in DOMAIN ops : ops[i] = op
        IN  /\ TheCall.returned = "Ok(true)" =>
                  /\ ops = <<"copy", "write">>
                  /\ files[BackupFile] = TheCall.before[SettingsFile]
                  /\ files[SettingsFile] # TheCall.before[SettingsFile]
            /\ TheCall.returned = "Ok(false)" =>
                  /\ ops = <<>>
                  /\ files = TheCall.before
            /\ \A i \in DOMAIN ops :
                  ops[i] = "write" => \E j \in 1..(i - 1) : ops[j] = "copy"
            /\ files[SettingsFile] # TheCall.before[SettingsFile] =>
                  files[BackupFile] = TheCall.before[SettingsFile]

\* settings written by hand were rewritten, and the backup left by an
\* earlier run now holds them as they were
C18_Witness ==
    /\ Configured
    /\ TheCall.returned = "Ok(true)"
    /\ IsDocument(TheCall.before[SettingsFile])
    /\ Unwrap(TheCall.before[SettingsFile]).layout = "by hand"
    /\ IsSome(TheCall.before[BackupFile])
    /\ TheCall.before[BackupFile] # TheCall.before[SettingsFile]
    /\ files[BackupFile] = TheCall.before[SettingsFile]
    /\ Unwrap(files[SettingsFile]).layout = "pretty"

\* C19: a call made right after a call of the same provider that returned Ok
\* does not return Ok(true), leaves the settings file as it is and neither
\* creates nor rewrites the '.bak'; it returns Ok(false) unless the home
\* directory cannot be determined.
C19_SecondCallChangesNothing ==
    (Configured /\ TheCall.prior \in {Some("Ok(true)"), Some("Ok(false)")}) =>
        /\ TheCall.returned \in {"Ok(false)", "Err"}
        /\ files = TheCall.before
        /\ TheCall.ops = <<>>

\* the first call created or rewrote the file, the second returned false
C19_Witness ==
    /\ Configured
    /\ TheCall.prior = Some("Ok(true)")
    /\ TheCall.returned = "Ok(false)"
    /\ Unwrap(files[SettingsFile]).layout = "pretty"
    /\ IsSome(files[BackupFile])

\* C20: when the settings file exists and cannot be read or does not hold
\* valid JSON, ensure_configured() returns Err, and the settings file and the
\* '.bak' are as before the call.
C20_UnusableSettingsAreLeftAlone ==
    (Configured /\ IsSome(TheCall.before[SettingsFile])
        /\ (~Unwrap(TheCall.before[SettingsFile]).readable
            \/ ~IsDocument(TheCall.before[SettingsFile]))) =>
        /\ TheCall.returned = "Err"
        /\ files = TheCall.before
        /\ TheCall.ops = <<>>

\* a file that is not JSON, next to a backup of an earlier run
C20_Witness ==
    /\ Configured
    /\ IsSome(TheCall.before[SettingsFile])
    /\ Unwrap(TheCall.before[SettingsFile]).readable
    /\ ~IsDocument(TheCall.before[SettingsFile])
    /\ IsSome(TheCall.before[BackupFile])
    /\ TheCall.returned = "Err"

(***************************************************************************)
(* --setup: the claims                                                     *)
(***************************************************************************)
\* C21: a run with --setup exits 0 when every requested provider was
\* provisioned or already configured, or only the Codex instructions were
\* printed, and exits nonzero when provisioning a requested provider failed
\* (home directory missing, settings unreadable or malformed).
C21_SetupExitsNonzeroOnFailure ==
    Asked("run_setup") =>
        (Unwrap(result).exit = 0 <=> Unwrap(result).failed = <<>>)

(***************************************************************************)
(* parse_logs: the timestamps                                              *)
(***************************************************************************)
\* the POSTs to /v1/logs so far
LogPosts == {k \in 1..Len(http) : http[k].route = "/v1/logs" /\ http[k].status = 200}
\* the batch parse_logs returned to the k-th request
BatchOf(k) == history[http[k].sent[1]].arg
\* the time_unix_nano a record carries, as its decoder reads it
time_unix_nano_of(body, rec) ==
    IF IsSome(body.protobuf) THEN Some(rec.time_unix_nano)
    ELSE deserialize_string_or_u64(rec.time_unix_nano).value
\* a record that carries a time: time_unix_nano present and nonzero
HasPayloadTime(body, rec) ==
    IsSome(time_unix_nano_of(body, rec)) /\ Unwrap(time_unix_nano_of(body, rec)) # 0

ClaimedTimestamp(body, rec, t) ==
    IF HasPayloadTime(body, rec) THEN Unwrap(time_unix_nano_of(body, rec)) ELSE t

\* C23: in both decoders, the timestamp of a LogEvent is the record's
\* time_unix_nano when that is present and nonzero, and the wall-clock time of
\* the call when it is zero or absent, a JSON timeUnixNano of 0 or "0"
\* included.
C23_TimestampIsPayloadOrClock ==
    [][(Len(http') = Len(http) + 1 /\ http'[Len(http')].route = "/v1/logs"
            /\ http'[Len(http')].sent # <<>>) =>
          LET body == http'[Len(http')].body
              batch == history'[http'[Len(http')].sent[1]].arg
              recs == RequestRecords(body)
          IN  \A j \in 1..Len(recs) :
                 j \in 1..Len(batch) /\ batch[j].timestamp = ClaimedTimestamp(body, recs[j], now)
       ]_vars

(***************************************************************************)
(* Tool classification: the claim                                          *)
(***************************************************************************)
\* C24: every row of tool metrics is built-in exactly when its tool name is
\* in the builtin_tools of some registered provider, ToolMetrics::is_builtin
\* agrees with ProviderRegistry::is_any_builtin_tool, and exactly one of
\* is_builtin and is_mcp holds of it.
C24_BuiltinIffSomeProviderListsIt ==
    Asked("get_tool_metrics") =>
        \A i \in 1..Len(Unwrap(result).value) :
            LET m == Unwrap(result).value[i]
            IN  /\ is_builtin(m) = is_any_builtin_tool(m.tool_name)
                /\ is_builtin(m) # is_mcp(m)

(***************************************************************************)
(* The terminal UI: the claims                                             *)
(***************************************************************************)
\* the selection is on a row whenever there are rows
SelectionInRange ==
    Len(app.tool_metrics) # 0 => app.selected_index < Len(app.tool_metrics)

\* a step of select_next or select_previous wraps around at the ends and
\* leaves the selection alone when there are no rows
SelectionWraps ==
    /\ SelectNext =>
          /\ Len(app.tool_metrics) = 0 => app'.selected_index = app.selected_index
          /\ (Len(app.tool_metrics) # 0
                /\ app.selected_index = Len(app.tool_metrics) - 1) =>
                app'.selected_index = 0
    /\ SelectPrevious =>
          /\ Len(app.tool_metrics) = 0 => app'.selected_index = app.selected_index
          /\ (Len(app.tool_metrics) # 0 /\ app.selected_index = 0) =>
                app'.selected_index = Len(app.tool_metrics) - 1

IsPrefix(before, after) ==
    Len(before) <= Len(after) /\ SubSeq(after, 1, Len(before)) = before

\* the all-time call_count of a tool: that of its row of get_tool_metrics(None)
AllTimeCallCount(db, tool_name) ==
    LET rows == {r \in tool_metrics_groups(db, None) : r.tool_name = tool_name}
    IN  IF rows = {} THEN 0 ELSE (CHOOSE r \in rows : TRUE).call_count

RECURSIVE WholeBatches(_)
WholeBatches(k) ==
    IF k = 0 THEN {<<>>}
    ELSE IF history[processed[k].id].kind = "RecordLogEvents"
         THEN WholeBatches(k - 1)
                \cup {rows \o history[processed[k].id].arg : rows \in WholeBatches(k - 1)}
         ELSE WholeBatches(k - 1)

\* the actor dequeues a read command
ReadDequeued ==
    /\ Len(processed') = Len(processed) + 1
    /\ history[processed'[Len(processed')].id].kind \in ReadKinds

\* C26: no read observes a batch of RecordLogEvents part-way: the table every
\* read is answered from holds, of each batch, all of its events or none.
C26_ReadsSeeWholeBatches ==
    [][ReadDequeued => conn.log_events \in WholeBatches(Len(processed))]_vars

(***************************************************************************)
(* The two encodings of a metrics request: the claim                       *)
(***************************************************************************)
\* the record_* calls the k-th request made, in order
CallsOf(k) ==
    [i \in 1..Len(http[k].sent) |->
        [kind |-> history[http[k].sent[i]].kind, arg |-> history[http[k].sent[i]].arg]]

\* C27: the protobuf decoder and the JSON decoder project the same logical
\* metrics request to the same sequence of ParsedMetrics: a request posted as
\* protobuf and the same request posted as JSON make the same record_* calls.
C27_BothEncodingsProjectAlike ==
    \A k1, k2 \in 1..Len(http) :
        (/\ http[k1].route = "/v1/metrics" /\ http[k2].route = "/v1/metrics"
         /\ \E n \in 1..Len(MetricNames) :
               /\ http[k1].body = ProtoMetrics(MetricNames[n])
               /\ http[k2].body = JsonMetrics(MetricNames[n]))
        => CallsOf(k1) = CallsOf(k2)

(***************************************************************************)
(* The rows of get_tool_metrics: the claim                                 *)
(***************************************************************************)
\* C28: every ToolMetrics row has call_count >= 1, success_count + error_count
\* = call_count, approved_count + rejected_count <= call_count and
\* min_duration_ms <= avg_duration_ms <= max_duration_ms; a row made of legacy
\* tool_events only has approved_count = rejected_count = 0.
C28_RowsAreConsistent ==
    Asked("get_tool_metrics") =>
        LET q == Unwrap(result)
        IN  \A i \in DOMAIN q.value :
                LET m == q.value[i]
                IN  /\ m.call_count >= 1
                    /\ m.success_count + m.error_count = m.call_count
                    /\ m.approved_count + m.rejected_count <= m.call_count
                    /\ m.min_duration_ms * m.avg_duration_ms.count <= m.avg_duration_ms.sum
                    /\ m.avg_duration_ms.sum <= m.max_duration_ms * m.avg_duration_ms.count
                    /\ LogsNamed(conn, q.since, m.tool_name) = {} =>
                          m.approved_count = 0 /\ m.rejected_count = 0

\* Bash has a failed legacy call of 9 ms and a rejected call without an
\* outcome or a duration: a row of two calls, none successful, one rejected,
\* with durations from 0 to 9
C28_Witness ==
    /\ Asked("get_tool_metrics")
    /\ \E i \in DOMAIN Unwrap(result).value :
          LET m == Unwrap(result).value[i]
          IN  /\ m.tool_name = "Bash"
              /\ m.call_count = 2 /\ m.error_count = 2
              /\ m.rejected_count = 1 /\ m.approved_count = 0
              /\ m.min_duration_ms = 0 /\ m.max_duration_ms = 9

(***************************************************************************)
(* The actor after the last handle is dropped: the claim                   *)
(***************************************************************************)
\* the actor has stopped with every accepted command processed, in the order
\* of acceptance, and every accepted write in the database
StoppedAfterDraining ==
    actor = "stopped" =>
        /\ senders = {}
        /\ stopCause = Some("disconnected")
        /\ Len(processed) = Len(history)
        /\ \A k \in 1..Len(processed) : processed[k].id = k
        /\ conn = Replay(Len(history))

\* C29: when every StorageHandle clone has been dropped, the actor first
\* processes all the commands still in its queue, in order, and then
\* terminates: no accepted write is lost, and the actor thread does not run
\* forever.
C29_DrainsThenTerminates ==
    /\ []StoppedAfterDraining
    /\ (senders = {}) ~> (actor = "stopped")

\* the actor stopped on disconnection after three writes of the two holders,
\* the first of which it dequeued with the other two queued behind it
C29_Witness ==
    /\ actor = "stopped"
    /\ senders = {}
    /\ Len(history) = 3
    /\ history[1].caller = "c1" /\ history[3].caller = "c2"
    /\ \A k \in 1..3 : history[k].kind \in WriteKinds
    /\ processed[1].behind = 2
    /\ Len(conn.tool_events) + Len(conn.token_usage) + Len(conn.log_events) = 3

====
